---- MODULE Spec2Model ----
(***************************************************************************)
(* Pricing and margin-accounting core of the perpetual-futures exchange:   *)
(* the vpool bonding curve, the reserve-snapshot history with its TWAP     *)
(* walk, and the add/remove-margin handlers.                               *)
(*                                                                         *)
(* Decimals (sdk.Dec) are integers scaled by DecScale: the program keeps   *)
(* 18 fractional digits, the model keeps three so that every intermediate  *)
(* product stays inside TLC's integers.  Timestamps are milliseconds.      *)
(***************************************************************************)
EXTENDS Integers, Sequences, FiniteSets, TLC

(* ------------------------------ bounds --------------------------------- *)

\* one unit of a decimal: the model's 10^3 stands for the program's 10^18
DecScale == 1000
\* latest block time, in milliseconds
MaxTime == 3
\* largest snapshot counter of a history
MaxCounter == 2
\* largest lookback interval handed to calcTwap, in milliseconds
MaxLookback == 3

(* --------------------------- decimal engine ---------------------------- *)

Abs(x) == IF x < 0 THEN 0 - x ELSE x

Sign(x) == IF x < 0 THEN 0 - 1 ELSE 1

\* n / d for d > 0, n >= 0, rounded half to even (sdk.Dec chopPrecisionAndRound)
RoundHalfEven(n, d) ==
    LET q == n \div d
        r == n % d
    IN  IF 2 * r < d THEN q
        ELSE IF 2 * r > d THEN q + 1
        ELSE IF q % 2 = 0 THEN q ELSE q + 1

\* an integer as a decimal (sdk.NewDec, Int.ToDec)
ToDec(n) == n * DecScale

\* Dec.Mul: exact product, rounded half to even at the decimal precision
DecMul(a, b) == Sign(a) * Sign(b) * RoundHalfEven(Abs(a) * Abs(b), DecScale)

\* a quotient cut off toward zero at the decimal precision
DecQuoTruncate(a, b) == Sign(a) * Sign(b) * ((Abs(a) * DecScale) \div Abs(b))

\* Dec.Quo for b # 0: exact quotient, rounded half to even
DecQuo(a, b) == Sign(a) * Sign(b) * RoundHalfEven(Abs(a) * DecScale, Abs(b))

\* Dec.MulInt64: exact
DecMulInt64(a, i) == a * i

\* Dec.QuoInt64 for i # 0: big.Int.Quo, truncated toward zero
DecQuoInt64(a, i) == Sign(a) * Sign(i) * (Abs(a) \div Abs(i))

(* ------------------------- the bonding curve --------------------------- *)

Directions == {"AddToPool", "RemoveFromPool"}

TwapCalcOptions == {"Spot", "QuoteAssetSwap", "BaseAssetSwap"}

\* Vpool.GetQuoteAmountByBaseAmount: the quote amount that moves the base
\* reserve by baseAmount in direction dir
GetQuoteAmountByBaseAmount(quoteReserve, baseReserve, dir, baseAmount) ==
    IF baseAmount = 0 THEN [err |-> "ok", amount |-> 0]
    ELSE
      LET k == DecMul(quoteReserve, baseReserve)
          baseAfter == IF dir = "AddToPool" THEN baseReserve + baseAmount
                       ELSE baseReserve - baseAmount
      IN  IF baseAfter <= 0 THEN [err |-> "BaseReserveAtZero", amount |-> 0]
          ELSE IF dir = "AddToPool"
               THEN [err |-> "ok", amount |-> quoteReserve - DecQuo(k, baseAfter)]
               ELSE [err |-> "ok", amount |-> DecQuo(k, baseAfter) - quoteReserve]

\* a pricing off the curve: the quote amount converted at the spot price
GetBaseAmountAtSpotPrice(quoteReserve, baseReserve, dir, quoteAmount) ==
    [err |-> "ok",
     amount |-> IF quoteReserve = 0 THEN 0
                ELSE DecQuo(DecMul(quoteAmount, baseReserve), quoteReserve)]

\* Vpool.GetBaseAmountByQuoteAmount: the symmetric counterpart
GetBaseAmountByQuoteAmount(quoteReserve, baseReserve, dir, quoteAmount) ==
    IF quoteAmount = 0 THEN [err |-> "ok", amount |-> 0]
    ELSE
      LET k == DecMul(quoteReserve, baseReserve)
          quoteAfter == IF dir = "AddToPool" THEN quoteReserve + quoteAmount
                        ELSE quoteReserve - quoteAmount
      IN  IF quoteAfter <= 0 THEN [err |-> "QuoteReserveAtZero", amount |-> 0]
          ELSE IF dir = "AddToPool"
               THEN [err |-> "ok", amount |-> baseReserve - DecQuo(k, quoteAfter)]
               ELSE [err |-> "ok", amount |-> DecQuo(k, quoteAfter) - baseReserve]

(* ------------------------- the snapshot store -------------------------- *)

Counters == 0 .. (MaxCounter + 1)

NoSnapshot == [found |-> FALSE, quote |-> 0, base |-> 0, ts |-> 0, block |-> 0]

NewSnapshot(q, b, t, h) == [found |-> TRUE, quote |-> q, base |-> b, ts |-> t, block |-> h]

NoSnapshots == [c \in Counters |-> NoSnapshot]

\* a lookup that hands out an empty snapshot for an absent key
getSnapshotLenient(snaps, c) ==
    IF c \in Counters /\ snaps[c].found
    THEN [err |-> "ok", snapshot |-> snaps[c]]
    ELSE [err |-> "ok", snapshot |-> NoSnapshot]

\* Keeper.getSnapshot: SnapshotNotFound when the key is absent
getSnapshot(snaps, c) ==
    IF c \in Counters /\ snaps[c].found
    THEN [err |-> "ok", snapshot |-> snaps[c]]
    ELSE [err |-> "SnapshotNotFound", snapshot |-> NoSnapshot]

(* ------------------------- the TWAP calculator ------------------------- *)

\* getPriceWithSnapshot: the price of one snapshot under the chosen option;
\* the spot quotient panics on a zero base reserve
getPriceWithSnapshot(s, option, dir, amount) ==
    IF option = "Spot"
    THEN IF s.base = 0 THEN [err |-> "panic", price |-> 0]
         ELSE [err |-> "ok", price |-> DecQuo(s.quote, s.base)]
    ELSE IF option = "QuoteAssetSwap"
    THEN LET r == GetBaseAmountByQuoteAmount(s.quote, s.base, dir, amount)
         IN  [err |-> r.err, price |-> r.amount]
    ELSE LET r == GetQuoteAmountByBaseAmount(s.quote, s.base, dir, amount)
         IN  [err |-> r.err, price |-> r.amount]

\* timeElapsedMs without the clip at the window's left edge
timeElapsedMsUnclipped(snapTs, prevTimestampMs, lowerLimitTimestampMs) ==
    prevTimestampMs - snapTs

\* calcTwap, lines 248-254: the time one snapshot is responsible for
timeElapsedMs(snapTs, prevTimestampMs, lowerLimitTimestampMs) ==
    IF snapTs <= lowerLimitTimestampMs
    THEN prevTimestampMs - lowerLimitTimestampMs
    ELSE prevTimestampMs - snapTs

\* a walk that never ends early
neverEndEarly(snapTs, lowerLimitTimestampMs) == FALSE

\* calcTwap, lines 258-261: the walk ends once the window's left edge is passed
endEarly(snapTs, lowerLimitTimestampMs) == snapTs <= lowerLimitTimestampMs

\* calcTwap, lines 228-264: the loop from counter c down to 0
RECURSIVE twapLoop(_, _, _, _, _, _, _, _, _)
twapLoop(snaps, option, dir, amount, lower, c, cumulativePrice, cumulativePeriodMs, prev) ==
    IF c < 0
    THEN [err |-> "ok", cumulativePrice |-> cumulativePrice,
          cumulativePeriodMs |-> cumulativePeriodMs, read |-> <<>>]
    ELSE
      LET cur == getSnapshot(snaps, c) IN
      IF cur.err # "ok"
      THEN [err |-> cur.err, cumulativePrice |-> 0, cumulativePeriodMs |-> 0, read |-> <<c>>]
      ELSE
        LET p == getPriceWithSnapshot(cur.snapshot, option, dir, amount) IN
        IF p.err # "ok"
        THEN [err |-> p.err, cumulativePrice |-> 0, cumulativePeriodMs |-> 0, read |-> <<c>>]
        ELSE
          LET el   == timeElapsedMs(cur.snapshot.ts, prev, lower)
              cp   == cumulativePrice + DecMulInt64(p.price, el)
              cper == cumulativePeriodMs + el
          IN  IF endEarly(cur.snapshot.ts, lower)
              THEN [err |-> "ok", cumulativePrice |-> cp,
                    cumulativePeriodMs |-> cper, read |-> <<c>>]
              ELSE LET rest == twapLoop(snaps, option, dir, amount, lower,
                                        c - 1, cp, cper, cur.snapshot.ts)
                   IN  [rest EXCEPT !.read = <<c>> \o @]

\* the width, in bits, that stands for the 64 of the snapshot counter
CounterWidth == 4

\* calcTwap, line 228: int64(latestSnapshotCounter), the two's complement
\* reading of the unsigned counter
int64Of(u) ==
    IF u >= 2 ^ (CounterWidth - 1) THEN u - 2 ^ CounterWidth ELSE u

\* calcTwap: the whole function; the final QuoInt64 panics on a zero period
calcTwap(snaps, counter, now, option, dir, amount, lookbackInterval) ==
    LET lower == now - lookbackInterval IN
    IF ~counter.found
    THEN [err |-> "SnapshotCounterNotFound", price |-> 0, period |-> 0, read |-> <<>>]
    ELSE
      LET w == twapLoop(snaps, option, dir, amount, lower, int64Of(counter.value),
                        0, 0, now) IN
      IF w.err # "ok"
      THEN [err |-> w.err, price |-> 0, period |-> 0, read |-> w.read]
      ELSE IF w.cumulativePeriodMs = 0
      THEN [err |-> "panic", price |-> 0, period |-> 0, read |-> w.read]
      ELSE [err |-> "ok", price |-> DecQuoInt64(w.cumulativePrice, w.cumulativePeriodMs),
            period |-> w.cumulativePeriodMs, read |-> w.read]

(* -------------------- the margin engine: helpers ----------------------- *)

\* common.StableDenom
StableDenom == "unusd"

\* the pair that has a vpool
PoolPair == "ubtc:unusd"

\* sdk.AccAddressFromBech32: the one well-formed sender is the trader
validSender(sender) == sender = "trader"

\* addedMargin.IsPositive() without the zero case
addedMarginNonNegative(amount) == amount >= 0

\* AddMargin, line 31: addedMargin.IsPositive()
addedMarginPositive(amount) == amount > 0

\* RemoveMargin, line 91: margin.LTE(sdk.ZeroInt()) is rejected
removedMarginPositive(amount) == ~(amount <= 0)

\* common.NewTokenPairFromStr: a pair string without the two denominations fails
validPairStr(pairStr) == pairStr # "malformed"

\* RemoveMargin, line 120: !remaining.BadDebt.IsZero()
hasBadDebt(badDebt) == badDebt # 0

\* the free-collateral check switched off
alwaysEnoughFreeCollateral(freeCollateral) == TRUE

\* RemoveMargin, line 128: freeCollateral.GTE(sdk.ZeroInt())
enoughFreeCollateral(freeCollateral) == freeCollateral >= 0

\* BankKeeper.SendCoins...: a transfer fails when the payer holds too little
bankCanSend(balance, amount) == balance >= amount

\* the mutant of CalcRemainMarginWithFundingPayment: a negative remainder is
\* returned as the margin
CalcRemainMarginWithoutFloor(pos, marginDelta, cpf) ==
    LET fundingPayment == DecMul(cpf - pos.lastCPF, pos.size)
        remainMargin   == pos.margin - fundingPayment + marginDelta
    IN  [margin         |-> remainMargin,
         badDebt        |-> 0,
         fundingPayment |-> fundingPayment,
         latestCPF      |-> cpf]

\* Keeper.CalcRemainMarginWithFundingPayment: the funding accrued since the
\* position's last update and marginDelta applied to the margin; a negative
\* remainder becomes bad debt and the margin floors at zero
CalcRemainMarginWithFundingPayment(pos, marginDelta, cpf) ==
    LET fundingPayment == DecMul(cpf - pos.lastCPF, pos.size)
        remainMargin   == pos.margin - fundingPayment + marginDelta
    IN  [margin         |-> IF remainMargin < 0 THEN 0 ELSE remainMargin,
         badDebt        |-> IF remainMargin < 0 THEN 0 - remainMargin ELSE 0,
         fundingPayment |-> fundingPayment,
         latestCPF      |-> cpf]

\* the mutant of messageSetupError: the pool is looked up before the pair
\* string is parsed
messageSetupErrorPoolFirst(sender, denom, amountOk, pairStr, poolExists, pos) ==
    IF ~validSender(sender) THEN "InvalidSender"
    ELSE IF denom # StableDenom THEN "InvalidDenom"
    ELSE IF ~amountOk THEN "NonPositiveMargin"
    ELSE IF ~(poolExists /\ pairStr = PoolPair) THEN "PairNotFound"
    ELSE IF ~validPairStr(pairStr) THEN "InvalidPair"
    ELSE IF ~pos.found THEN "PositionNotFound"
    ELSE "ok"

\* AddMargin, lines 19-50 and RemoveMargin, lines 79-110: what is checked
\* before the position is touched
messageSetupError(sender, denom, amountOk, pairStr, poolExists, pos) ==
    IF ~validSender(sender) THEN "InvalidSender"
    ELSE IF denom # StableDenom THEN "InvalidDenom"
    ELSE IF ~amountOk THEN "NonPositiveMargin"
    ELSE IF ~validPairStr(pairStr) THEN "InvalidPair"
    ELSE IF ~(poolExists /\ pairStr = PoolPair) THEN "PairNotFound"
    ELSE IF ~pos.found THEN "PositionNotFound"
    ELSE "ok"

\* AddMargin, lines 19-50 and RemoveMargin, lines 79-110: the state the
\* message setup has read when it ends with setupErr; requireVpool is the
\* first read, Positions().Get the second
messageSetupReads(setupErr) ==
    IF setupErr \in {"InvalidSender", "InvalidDenom", "NonPositiveMargin", "InvalidPair"}
    THEN <<>>
    ELSE IF setupErr = "PairNotFound"
    THEN <<"pool">>
    ELSE <<"pool", "position">>

\* Keeper.AddMargin: the error it returns, whether it stores the position,
\* the position it stores and the transfers it makes
addMargin(sender, denom, amount, pairStr, poolExists, pos, traderHas) ==
    LET setupErr == messageSetupError(sender, denom, addedMarginPositive(amount),
                                      pairStr, poolExists, pos)
        newPos   == [pos EXCEPT !.margin = @ + ToDec(amount)]
    IN  IF setupErr # "ok"
        THEN [err |-> setupErr, stored |-> FALSE, pos |-> pos, transfers |-> <<>>]
        ELSE IF ~bankCanSend(traderHas, amount)
        THEN [err |-> "InsufficientFunds", stored |-> FALSE, pos |-> pos, transfers |-> <<>>]
        ELSE [err |-> "ok", stored |-> TRUE, pos |-> newPos,
              transfers |-> << [from |-> "trader", to |-> "vault", amount |-> amount] >>]

\* Keeper.RemoveMargin: likewise; fc is what calcFreeCollateral returns for
\* the recomputed position, remainErr whether the funding recalculation fails
removeMargin(sender, denom, amount, pairStr, poolExists, pos, cpf, remainErr, fc, vaultHas) ==
    LET setupErr  == messageSetupError(sender, denom, removedMarginPositive(amount),
                                       pairStr, poolExists, pos)
        remaining == CalcRemainMarginWithFundingPayment(pos, 0 - ToDec(amount), cpf)
        newPos    == [pos EXCEPT !.margin = remaining.margin,
                                 !.lastCPF = remaining.latestCPF]
        none(e)   == [err |-> e, stored |-> FALSE, pos |-> pos, transfers |-> <<>>]
    IN  IF setupErr # "ok" THEN none(setupErr)
        ELSE IF remainErr THEN none("FundingError")
        ELSE IF hasBadDebt(remaining.badDebt) THEN none("HasBadDebt")
        ELSE IF fc.err # "ok" THEN none(fc.err)
        ELSE IF ~enoughFreeCollateral(fc.value) THEN none("InsufficientFreeCollateral")
        \* line 132 stores the position before line 135 asks the bank
        ELSE IF ~bankCanSend(vaultHas, amount)
        THEN [err |-> "InsufficientFunds", stored |-> TRUE, pos |-> newPos, transfers |-> <<>>]
        ELSE [err |-> "ok", stored |-> TRUE, pos |-> newPos,
              transfers |-> << [from |-> "vault", to |-> "trader", amount |-> amount] >>]

(* ------------------------------- state --------------------------------- *)

VARIABLES
    pool,             \* the stored Vpool of the pair
    snapshots,        \* the reserve snapshots of the pair, by counter
    snapshotCounter,  \* the stored latest counter: [found, value]
    blockTime,        \* ctx.BlockTime(), in milliseconds
    blockHeight,      \* ctx.BlockHeight()
    twap,             \* the last calcTwap call: its inputs and what it returned
    poolCall,         \* the last pool operation: its inputs, the pool before it, its result
    position,         \* the stored position of (pair, trader)
    traderBalance,    \* the trader's stable-denom coins in the bank
    vaultBalance,     \* the vault module account's stable-denom coins
    latestCPF,        \* the pair's latest cumulative premium fraction
    marginCall,       \* the last AddMargin / RemoveMargin call and what it did
    dexPool,          \* a dex Pool: its PoolAssets and TotalWeight
    dexCall           \* the last SetInitialPoolAssets call and what it returned

dexVars == <<dexPool, dexCall>>

vpoolVars == <<pool, snapshots, snapshotCounter, blockTime, blockHeight, twap, poolCall,
               dexVars>>

perpVars == <<position, traderBalance, vaultBalance, latestCPF, marginCall, dexVars>>

vars == <<vpoolVars, perpVars>>

NoPool == [exists |-> FALSE, quote |-> 0, base |-> 0, sqrtDepth |-> 0,
           tradeLimitRatio |-> 0, fluctuationLimitRatio |-> 0]

\* events counts the pool creations and reserve mutations that succeeded
NoPoolCall == [op |-> "none", err |-> "ok", dir |-> "AddToPool", amount |-> 0,
               out |-> 0, before |-> NoPool, events |-> 0]

NoPosition == [found |-> FALSE, size |-> 0, margin |-> 0, lastCPF |-> 0]

NoMarginCall ==
    [op |-> "none", err |-> "ok", sender |-> "", denom |-> "", amount |-> 0,
     pair |-> "", before |-> NoPosition, cpf |-> 0, remainErr |-> FALSE,
     fc |-> [err |-> "ok", value |-> 0], transfers |-> <<>>,
     traderBefore |-> 0, vaultBefore |-> 0, reads |-> <<>>]

\* the margin side at rest, for the runs that exercise the pool only
\* a dex pool before SetInitialPoolAssets
NoDexPool == [poolAssets |-> <<>>, totalWeight |-> 0]

NoDexCall == [called |-> FALSE]

DexIdle == dexPool = NoDexPool /\ dexCall = NoDexCall

PerpIdle ==
    /\ position = NoPosition
    /\ traderBalance = 0
    /\ vaultBalance = 0
    /\ latestCPF = 0
    /\ marginCall = NoMarginCall
    /\ DexIdle

NoTwap == [called |-> FALSE, option |-> "Spot", dir |-> "AddToPool", amount |-> 0,
           lookback |-> 0, err |-> "ok", price |-> 0, period |-> 0, read |-> <<>>]

(* ------------------ TWAP over stored histories (TestCalcTwap) ---------- *)

\* reserves (quote, base) a stored snapshot may hold: the empty pool of the
\* test's first block, the three snapshots of the spot scenario, and a pair
\* whose spot price does not terminate
ReservePairs ==
    { <<0, 0>>, <<ToDec(90), ToDec(10)>>, <<ToDec(85), ToDec(10)>>,
      <<ToDec(95), ToDec(10)>>, <<ToDec(10), ToDec(3)>> }

\* the asset amounts a swap-priced TWAP is asked for
TwapAmounts == { ToDec(2) }

\* TestCalcTwap, lines 436-462: a pool's history is written snapshot by
\* snapshot, at non-decreasing block times
TwapInit ==
    /\ \E rp \in ReservePairs, t \in 0 .. MaxTime :
         /\ snapshots = [NoSnapshots EXCEPT ![0] = NewSnapshot(rp[1], rp[2], t, 0)]
         /\ blockTime = t
    /\ snapshotCounter = [found |-> TRUE, value |-> 0]
    /\ blockHeight = 0
    /\ twap = NoTwap
    /\ pool = NoPool /\ poolCall = NoPoolCall
    /\ PerpIdle

\* Keeper.saveSnapshot then Keeper.saveSnapshotCounter, at a later block
SaveNextSnapshot(rp, t) ==
    /\ ~twap.called
    /\ snapshotCounter.value < MaxCounter
    /\ t >= blockTime /\ t <= MaxTime
    /\ LET c == snapshotCounter.value + 1 IN
         /\ snapshots' = [snapshots EXCEPT ![c] = NewSnapshot(rp[1], rp[2], t, blockHeight + 1)]
         /\ snapshotCounter' = [found |-> TRUE, value |-> c]
    /\ blockTime' = t
    /\ blockHeight' = blockHeight + 1
    /\ UNCHANGED <<twap, pool, poolCall, perpVars>>

\* ctx.WithBlockTime: the block in which calcTwap is called
SetBlockTime(t) ==
    /\ ~twap.called
    /\ t > blockTime /\ t <= MaxTime
    /\ blockTime' = t
    /\ blockHeight' = blockHeight + 1
    /\ UNCHANGED <<snapshots, snapshotCounter, twap, pool, poolCall, perpVars>>

\* Keeper.calcTwap on the stored history
CalcTwap(option, dir, amount, lookbackInterval) ==
    /\ ~twap.called
    /\ LET r == calcTwap(snapshots, snapshotCounter, blockTime, option, dir, amount,
                         lookbackInterval)
       IN  twap' = [called |-> TRUE, option |-> option, dir |-> dir, amount |-> amount,
                    lookback |-> lookbackInterval, err |-> r.err, price |-> r.price,
                    period |-> r.period, read |-> r.read]
    /\ UNCHANGED <<snapshots, snapshotCounter, blockTime, blockHeight, pool, poolCall, perpVars>>

TwapNext ==
    \/ \E rp \in ReservePairs, t \in 0 .. MaxTime : SaveNextSnapshot(rp, t)
    \/ \E t \in 0 .. MaxTime : SetBlockTime(t)
    \/ \E lb \in 0 .. MaxLookback : CalcTwap("Spot", "AddToPool", 0, lb)
    \/ \E o \in {"QuoteAssetSwap", "BaseAssetSwap"}, d \in Directions,
          a \in TwapAmounts, lb \in 0 .. MaxLookback : CalcTwap(o, d, a, lb)

SpecTwap == TwapInit /\ [][TwapNext]_vars

(* ------------------- the margin handlers as actions -------------------- *)

\* largest margin amount of a message
MaxMarginAmount == 2
\* largest stable balance an account starts with
MaxBalance == 1

Senders == {"trader", "notbech32"}

Denoms == {StableDenom, "uother"}

PairStrs == {PoolPair, "ueth:unusd", "malformed"}

MarginAmounts == (0 - 1) .. MaxMarginAmount

CPFValues == {0, ToDec(1)}

\* what calcFreeCollateral may return: an amount, or the error of a price query
FreeCollateralOutcomes ==
    { [err |-> "ok", value |-> v] : v \in {0 - 1, 0, 1} }
      \cup { [err |-> "PriceError", value |-> 0] }

\* a pool for the pair, as requireVpool sees it
SomePool == [exists |-> TRUE, quote |-> ToDec(10), base |-> ToDec(10),
             sqrtDepth |-> ToDec(10), tradeLimitRatio |-> ToDec(1),
             fluctuationLimitRatio |-> ToDec(1)]

MarginInit ==
    /\ pool = SomePool /\ poolCall = NoPoolCall
    /\ snapshots = [NoSnapshots EXCEPT ![0] = NewSnapshot(ToDec(10), ToDec(10), 0, 0)]
    /\ snapshotCounter = [found |-> TRUE, value |-> 0]
    /\ blockTime = 0 /\ blockHeight = 0 /\ twap = NoTwap
    /\ position \in {NoPosition}
         \cup { [found |-> TRUE, size |-> sz, margin |-> m, lastCPF |-> 0] :
                  sz \in {ToDec(2), ToDec(0 - 1)}, m \in {ToDec(1), ToDec(3)} }
    /\ traderBalance \in 0 .. MaxBalance
    /\ vaultBalance \in 0 .. MaxBalance
    /\ latestCPF = 0
    /\ marginCall = NoMarginCall
    /\ DexIdle

MarginCallOf(op, sender, denom, amount, pairStr, remainErr, fc, r) ==
    [op |-> op, err |-> r.err, sender |-> sender, denom |-> denom, amount |-> amount,
     pair |-> pairStr, before |-> position, cpf |-> latestCPF, remainErr |-> remainErr,
     fc |-> fc, transfers |-> r.transfers,
     traderBefore |-> traderBalance, vaultBefore |-> vaultBalance,
     reads |-> messageSetupReads(r.err)]

\* Keeper.AddMargin
AddMargin(sender, denom, amount, pairStr) ==
    LET r == addMargin(sender, denom, amount, pairStr, pool.exists, position, traderBalance)
        sent == IF r.transfers = <<>> THEN 0 ELSE amount
    IN  /\ position' = IF r.stored THEN r.pos ELSE position
        /\ traderBalance' = traderBalance - sent
        /\ vaultBalance' = vaultBalance + sent
        /\ marginCall' = MarginCallOf("AddMargin", sender, denom, amount, pairStr, FALSE,
                                      [err |-> "ok", value |-> 0], r)
        /\ UNCHANGED <<latestCPF, vpoolVars>>

\* Keeper.RemoveMargin
RemoveMargin(sender, denom, amount, pairStr, remainErr, fc) ==
    LET r == removeMargin(sender, denom, amount, pairStr, pool.exists, position,
                          latestCPF, remainErr, fc, vaultBalance)
        sent == IF r.transfers = <<>> THEN 0 ELSE amount
    IN  /\ position' = IF r.stored THEN r.pos ELSE position
        /\ traderBalance' = traderBalance + sent
        /\ vaultBalance' = vaultBalance - sent
        /\ marginCall' = MarginCallOf("RemoveMargin", sender, denom, amount, pairStr,
                                      remainErr, fc, r)
        /\ UNCHANGED <<latestCPF, vpoolVars>>

\* the pair's cumulative premium fraction moves at a funding epoch
SettleFunding(cpf) ==
    /\ cpf # latestCPF
    /\ latestCPF' = cpf
    /\ UNCHANGED <<position, traderBalance, vaultBalance, marginCall, vpoolVars>>

\* the messages tried: well-formed ones, those with a single field wrong,
\* and the one with every field wrong
Fields(m) ==
    { f \in {"sender", "denom", "amount", "pair"} :
        \/ f = "sender" /\ ~validSender(m.sender)
        \/ f = "denom" /\ m.denom # StableDenom
        \/ f = "amount" /\ m.amount <= 0
        \/ f = "pair" /\ m.pair # PoolPair }

Messages ==
    { m \in [sender : Senders, denom : Denoms, amount : MarginAmounts, pair : PairStrs] :
        Cardinality(Fields(m)) \in {0, 1, 4} }

MarginNext ==
    \/ \E m \in Messages : AddMargin(m.sender, m.denom, m.amount, m.pair)
    \/ \E m \in Messages, re \in BOOLEAN, fc \in FreeCollateralOutcomes :
         /\ (Fields(m) # {} => (~re /\ fc = [err |-> "ok", value |-> 0]))
         /\ RemoveMargin(m.sender, m.denom, m.amount, m.pair, re, fc)
    \/ \E cpf \in CPFValues : SettleFunding(cpf)

SpecMargin == MarginInit /\ [][MarginNext]_vars

(* ----------------------- the pool and its keeper ----------------------- *)

\* largest whole reserve a pool is created with
MaxReserve == 2
\* largest whole amount of a swap or of a direct reserve change
MaxSwap == 1

RECURSIVE SqrtSearch(_, _, _)
\* the largest s in lo .. hi with s * s <= n
SqrtSearch(n, lo, hi) ==
    IF lo >= hi THEN lo
    ELSE LET mid == (lo + hi + 1) \div 2
         IN  IF mid <= n \div mid THEN SqrtSearch(n, mid, hi)
             ELSE SqrtSearch(n, lo, mid - 1)

\* the decimal square root of x >= 0, to the decimal precision
DecSqrt(x) == SqrtSearch(x * DecScale, 0, x + DecScale)

\* NewVpool / createPool: a negative reserve is refused, zero is accepted;
\* sqrtDepth = sqrt(baseReserve * quoteReserve)
NewVpool(quoteReserve, baseReserve) ==
    IF quoteReserve < 0 \/ baseReserve < 0
    THEN [err |-> "InvalidReserve", pool |-> NoPool]
    ELSE [err |-> "ok",
          pool |-> [exists |-> TRUE, quote |-> quoteReserve, base |-> baseReserve,
                    sqrtDepth |-> DecSqrt(DecMul(baseReserve, quoteReserve)),
                    tradeLimitRatio |-> ToDec(1), fluctuationLimitRatio |-> ToDec(1)]]

\* a reserve change that also re-derives the cached square root
addToQuoteAssetReserveRederiving(p, delta) ==
    [p EXCEPT !.quote = @ + delta,
              !.sqrtDepth = DecSqrt(DecMul(p.base, p.quote + delta))]

\* Vpool.AddToQuoteAssetReserve: in place, delta may be negative
addToQuoteAssetReserve(p, delta) == [p EXCEPT !.quote = @ + delta]

\* Vpool.AddToBaseAssetReserve: in place, delta may be negative
addToBaseAssetReserve(p, delta) == [p EXCEPT !.base = @ + delta]

\* a base-for-quote swap on the live reserves: the base reserve moves by
\* baseAmount in direction dir, the quote reserve by the priced amount the
\* other way
swapBaseForQuote(p, dir, baseAmount) ==
    IF ~p.exists THEN [err |-> "PoolNotFound", pool |-> p, out |-> 0]
    ELSE
      LET r == GetQuoteAmountByBaseAmount(p.quote, p.base, dir, baseAmount)
          s == IF dir = "AddToPool" THEN 1 ELSE 0 - 1
      IN  IF r.err # "ok" THEN [err |-> r.err, pool |-> p, out |-> 0]
          ELSE [err |-> "ok", out |-> r.amount,
                pool |-> addToQuoteAssetReserve(addToBaseAssetReserve(p, s * baseAmount),
                                                0 - s * r.amount)]

\* a quote-for-base swap on the live reserves
swapQuoteForBase(p, dir, quoteAmount) ==
    IF ~p.exists THEN [err |-> "PoolNotFound", pool |-> p, out |-> 0]
    ELSE
      LET r == GetBaseAmountByQuoteAmount(p.quote, p.base, dir, quoteAmount)
          s == IF dir = "AddToPool" THEN 1 ELSE 0 - 1
      IN  IF r.err # "ok" THEN [err |-> r.err, pool |-> p, out |-> 0]
          ELSE [err |-> "ok", out |-> r.amount,
                pool |-> addToBaseAssetReserve(addToQuoteAssetReserve(p, s * quoteAmount),
                                               0 - s * r.amount)]

\* a counter that is written back without being advanced
keepSnapshotCounter(c) == c

\* the key of the next snapshot: the stored counter plus one
incrementSnapshotCounter(c) == c + 1

\* reserveEvents: 1 when the operation is a creation or reserve mutation of
\* the keeper that succeeded, else 0
PoolCallOf(op, err, dir, amount, out, reserveEvents) ==
    [op |-> op, err |-> err, dir |-> dir, amount |-> amount, out |-> out,
     before |-> pool, events |-> poolCall.events + reserveEvents]

PoolInit ==
    /\ pool = NoPool /\ poolCall = NoPoolCall
    /\ snapshots = NoSnapshots
    /\ snapshotCounter = [found |-> FALSE, value |-> 0]
    /\ blockTime = 0 /\ blockHeight = 0 /\ twap = NoTwap
    /\ PerpIdle

\* Keeper.CreatePool: stores the pool, snapshot 0 and the counter 0
CreatePool(quoteReserve, baseReserve) ==
    /\ ~pool.exists
    /\ LET r == NewVpool(quoteReserve, baseReserve) IN
         /\ poolCall' = PoolCallOf("CreatePool", r.err, "AddToPool", 0, 0,
                                   IF r.err = "ok" THEN 1 ELSE 0)
         /\ IF r.err # "ok"
            THEN UNCHANGED <<pool, snapshots, snapshotCounter>>
            ELSE /\ pool' = r.pool
                 /\ snapshots' = [snapshots EXCEPT ![0] =
                        NewSnapshot(quoteReserve, baseReserve, blockTime, blockHeight)]
                 /\ snapshotCounter' = [found |-> TRUE, value |-> 0]
    /\ UNCHANGED <<blockTime, blockHeight, twap, perpVars>>

\* what a swap stores: the pool, then one snapshot under the next counter
StoreSwap(op, dir, amount, r) ==
    /\ poolCall' = PoolCallOf(op, r.err, dir, amount, r.out,
                              IF r.err = "ok" THEN 1 ELSE 0)
    /\ IF r.err # "ok"
       THEN UNCHANGED <<pool, snapshots, snapshotCounter>>
       ELSE LET c == incrementSnapshotCounter(snapshotCounter.value) IN
              /\ pool' = r.pool
              /\ snapshots' = [snapshots EXCEPT ![c] =
                     NewSnapshot(r.pool.quote, r.pool.base, blockTime, blockHeight)]
              /\ snapshotCounter' = [found |-> TRUE, value |-> c]
    /\ UNCHANGED <<blockTime, blockHeight, twap, perpVars>>

\* Keeper.SwapBaseForQuote
SwapBaseForQuote(dir, baseAmount) ==
    /\ pool.exists
    /\ snapshotCounter.value < MaxCounter
    /\ StoreSwap("SwapBaseForQuote", dir, baseAmount, swapBaseForQuote(pool, dir, baseAmount))

\* Keeper.SwapQuoteForBase
SwapQuoteForBase(dir, quoteAmount) ==
    /\ pool.exists
    /\ snapshotCounter.value < MaxCounter
    /\ StoreSwap("SwapQuoteForBase", dir, quoteAmount, swapQuoteForBase(pool, dir, quoteAmount))

\* the next block begins
NextBlock(t) ==
    /\ t > blockTime /\ t <= MaxTime
    /\ blockTime' = t
    /\ blockHeight' = blockHeight + 1
    /\ UNCHANGED <<snapshots, snapshotCounter, twap, pool, poolCall, perpVars>>

Reserves == { ToDec(n) : n \in (0 - 1) .. MaxReserve }

SwapAmounts == { ToDec(n) : n \in 0 .. MaxSwap }

Next ==
    \/ \E q \in Reserves, b \in Reserves : CreatePool(q, b)
    \/ \E d \in Directions, a \in SwapAmounts : SwapBaseForQuote(d, a)
    \/ \E d \in Directions, a \in SwapAmounts : SwapQuoteForBase(d, a)
    \/ \E t \in 0 .. MaxTime : NextBlock(t)

Spec == PoolInit /\ [][Next]_vars

(* ---------------- the pool object on its own (pool_test) --------------- *)

\* NewVpool, as the pool tests call it
NewPool(quoteReserve, baseReserve) ==
    /\ ~pool.exists
    /\ LET r == NewVpool(quoteReserve, baseReserve) IN
         /\ poolCall' = PoolCallOf("NewVpool", r.err, "AddToPool", 0, 0, 0)
         /\ pool' = r.pool
    /\ UNCHANGED <<snapshots, snapshotCounter, blockTime, blockHeight, twap, perpVars>>

ReserveDeltas == { ToDec(n) : n \in (0 - MaxSwap) .. MaxSwap } \ {0}

\* pool.AddToQuoteAssetReserve(delta)
AddToQuoteAssetReserve(delta) ==
    /\ pool.exists
    /\ pool.quote + delta \in 0 .. ToDec(MaxReserve + MaxSwap)
    /\ pool' = addToQuoteAssetReserve(pool, delta)
    /\ poolCall' = PoolCallOf("AddToQuoteAssetReserve", "ok", "AddToPool", delta, 0, 0)
    /\ UNCHANGED <<snapshots, snapshotCounter, blockTime, blockHeight, twap, perpVars>>

\* pool.AddToBaseAssetReserve(delta)
AddToBaseAssetReserve(delta) ==
    /\ pool.exists
    /\ pool.base + delta \in 0 .. ToDec(MaxReserve + MaxSwap)
    /\ pool' = addToBaseAssetReserve(pool, delta)
    /\ poolCall' = PoolCallOf("AddToBaseAssetReserve", "ok", "AddToPool", delta, 0, 0)
    /\ UNCHANGED <<snapshots, snapshotCounter, blockTime, blockHeight, twap, perpVars>>

PoolObjectNext ==
    \/ \E q \in Reserves, b \in Reserves : NewPool(q, b)
    \/ \E delta \in ReserveDeltas : AddToQuoteAssetReserve(delta)
    \/ \E delta \in ReserveDeltas : AddToBaseAssetReserve(delta)

SpecPool == PoolInit /\ [][PoolObjectNext]_vars

(* ---------------------- properties of calcTwap ------------------------- *)

Latest == snapshotCounter.value

LowerBound == blockTime - twap.lookback

\* the stored history is gapless, 0..latest, with non-decreasing timestamps
\* not later than the block time
HistoryWellFormed ==
    /\ snapshotCounter.found
    /\ \A c \in Counters : snapshots[c].found <=> c <= Latest
    /\ \A c \in 0 .. Latest : snapshots[c].ts <= blockTime
    /\ \A c \in 1 .. Latest : snapshots[c - 1].ts <= snapshots[c].ts

\* the snapshots newer than lowerBound, plus the first one at or before it
AtOrBeforeLowerBound == { i \in 0 .. Latest : snapshots[i].ts <= LowerBound }

Contributing ==
    { i \in 0 .. Latest : snapshots[i].ts > LowerBound }
      \cup { i \in AtOrBeforeLowerBound : \A j \in AtOrBeforeLowerBound : j <= i }

PriceOf(i) == getPriceWithSnapshot(snapshots[i], twap.option, twap.dir, twap.amount)

\* d_i: from max(timestamp_i, lowerBound) to the next snapshot's timestamp,
\* or to the block time for the latest snapshot
DurationOf(i) ==
    LET from == IF snapshots[i].ts > LowerBound THEN snapshots[i].ts ELSE LowerBound
        to   == IF i = Latest THEN blockTime ELSE snapshots[i + 1].ts
    IN  to - from

RECURSIVE SumDurations(_)
SumDurations(S) ==
    IF S = {} THEN 0
    ELSE LET i == CHOOSE x \in S : TRUE IN DurationOf(i) + SumDurations(S \ {i})

RECURSIVE SumWeightedPrices(_)
SumWeightedPrices(S) ==
    IF S = {} THEN 0
    ELSE LET i == CHOOSE x \in S : TRUE
         IN  PriceOf(i).price * DurationOf(i) + SumWeightedPrices(S \ {i})

PricesDefined == \A i \in Contributing : PriceOf(i).err = "ok"

\* C1: over a gapless history with non-decreasing timestamps not later than
\* the block time, calcTwap returns sum(price_i * d_i) / sum(d_i) over the
\* snapshots newer than lowerBound plus the first one at or before it
\* (wherever that quotient is defined: every price_i exists and the summed
\* period is positive), and the weighted period never exceeds lookbackInterval.
C1_TwapIsTimeWeightedAverage ==
    (twap.called /\ HistoryWellFormed /\ PricesDefined /\ SumDurations(Contributing) > 0)
      => /\ twap.err = "ok"
         /\ twap.period = SumDurations(Contributing)
         /\ twap.price = DecQuoInt64(SumWeightedPrices(Contributing), twap.period)
         /\ twap.period <= twap.lookback

\* the spot scenario: snapshots 90/10, 85/10, 95/10 at t = 1, 2, 3, block
\* time 3, lookback 2: the TWAP is 8.75
C1_Witness ==
    /\ twap.called /\ twap.option = "Spot" /\ twap.lookback = 2
    /\ blockTime = 3 /\ Latest = 2
    /\ snapshots[0] = NewSnapshot(ToDec(90), ToDec(10), 1, 0)
    /\ snapshots[1].quote = ToDec(85) /\ snapshots[1].ts = 2
    /\ snapshots[2].quote = ToDec(95) /\ snapshots[2].ts = 3
    /\ twap.err = "ok" /\ twap.period = 2
    /\ 4 * twap.price = ToDec(35)

\* C9: over a history of exactly one snapshot calcTwap returns exactly that
\* snapshot's price, for every lookbackInterval and every block time not
\* earlier than the snapshot's timestamp.
C9_SingleSnapshotTwapIsItsPrice ==
    (twap.called /\ HistoryWellFormed /\ Latest = 0 /\ PriceOf(0).err = "ok")
      => (twap.err = "ok" /\ twap.price = PriceOf(0).price)

\* C10: if every stored snapshot is newer than lowerBound, calcTwap does not
\* fail: it walks down to counter 0 and returns the time-weighted average
\* over [earliest snapshot timestamp, blockTime).
C10_ClippedToAvailableHistory ==
    (/\ twap.called /\ HistoryWellFormed
     /\ \A i \in 0 .. Latest : snapshots[i].ts > LowerBound
     /\ \A i \in 0 .. Latest : PriceOf(i).err = "ok")
      => /\ twap.err = "ok"
         /\ Len(twap.read) = Latest + 1
         /\ twap.read[Len(twap.read)] = 0
         /\ twap.period = blockTime - snapshots[0].ts
         /\ twap.price = DecQuoInt64(SumWeightedPrices(0 .. Latest), twap.period)

(* ------------------ properties of the margin handlers ------------------ *)

\* the last call passed the message setup and found the position
SetupPassed ==
    messageSetupError(marginCall.sender, marginCall.denom, marginCall.amount > 0,
                      marginCall.pair, pool.exists, marginCall.before) = "ok"

\* what CalcRemainMarginWithFundingPayment gave the last RemoveMargin
RemainingOfCall ==
    CalcRemainMarginWithFundingPayment(marginCall.before, 0 - ToDec(marginCall.amount),
                                       marginCall.cpf)

\* the position RemoveMargin persists: the recomputed margin and the latest
\* cumulative premium fraction
RecomputedPosition ==
    [marginCall.before EXCEPT !.margin = RemainingOfCall.margin,
                              !.lastCPF = RemainingOfCall.latestCPF]

\* the last RemoveMargin got as far as the funding recalculation
ReachedRemaining ==
    marginCall.op = "RemoveMargin" /\ SetupPassed /\ ~marginCall.remainErr

NothingMoved ==
    /\ marginCall.transfers = <<>>
    /\ traderBalance = marginCall.traderBefore
    /\ vaultBalance = marginCall.vaultBefore

\* C2: every failing path of addMargin and removeMargin, a failure of the
\* collateral transfer included, leaves the stored position as it was before
\* the call.
C2_FailedCallLeavesPositionUnchanged ==
    (marginCall.op # "none" /\ marginCall.err # "ok") => position = marginCall.before

\* C3: a removeMargin whose post-removal free collateral is negative fails
\* with InsufficientFreeCollateral, transfers nothing and leaves the stored
\* margin and lastUpdateCumulativePremiumFraction unchanged.
C3_InsufficientFreeCollateralChangesNothing ==
    /\ (/\ ReachedRemaining /\ RemainingOfCall.badDebt = 0
        /\ marginCall.fc.err = "ok" /\ marginCall.fc.value < 0)
         => marginCall.err = "InsufficientFreeCollateral"
    /\ marginCall.err = "InsufficientFreeCollateral"
         => /\ marginCall.fc.value < 0
            /\ NothingMoved
            /\ position = marginCall.before

\* a rejected removal whose recomputed position differs from the stored one
C3_Witness ==
    /\ marginCall.op = "RemoveMargin"
    /\ marginCall.err = "InsufficientFreeCollateral"
    /\ marginCall.before.lastCPF # marginCall.cpf
    /\ RecomputedPosition # position

\* C4 as claimed: bad debt fails with HasBadDebt before the free-collateral
\* check, persisting and transferring nothing; with neither bad debt nor
\* negative free collateral the position is persisted with the recomputed
\* margin and premium fraction and exactly amount goes from vault to trader.
C4_RemoveMarginAsClaimed ==
    ReachedRemaining =>
      /\ RemainingOfCall.badDebt # 0
           => (marginCall.err = "HasBadDebt" /\ NothingMoved /\ position = marginCall.before)
      /\ (RemainingOfCall.badDebt = 0 /\ marginCall.fc.err = "ok" /\ marginCall.fc.value >= 0)
           => /\ position = RecomputedPosition
              /\ marginCall.transfers =
                   << [from |-> "vault", to |-> "trader", amount |-> marginCall.amount] >>

\* What RemoveMargin does past the funding recalculation: the transfer of
\* amount is made only when the vault can pay; when the vault transfer fails
\* the call returns that error with the recomputed position already stored
\* (part_001:132 comes before part_001:135) and no coins moved.
RemoveMarginOutcomes ==
    ReachedRemaining =>
      /\ RemainingOfCall.badDebt # 0
           => (marginCall.err = "HasBadDebt" /\ NothingMoved /\ position = marginCall.before)
      /\ (RemainingOfCall.badDebt = 0 /\ marginCall.fc.err = "ok" /\ marginCall.fc.value >= 0)
           => /\ position = RecomputedPosition
              /\ marginCall.vaultBefore >= marginCall.amount
                   => /\ marginCall.err = "ok"
                      /\ marginCall.transfers =
                           << [from |-> "vault", to |-> "trader", amount |-> marginCall.amount] >>
                      /\ vaultBalance = marginCall.vaultBefore - marginCall.amount
                      /\ traderBalance = marginCall.traderBefore + marginCall.amount
              /\ marginCall.vaultBefore < marginCall.amount
                   => (marginCall.err = "InsufficientFunds" /\ NothingMoved)

\* C5: a successful addMargin stores the previous margin plus exactly amount,
\* size and lastUpdateCumulativePremiumFraction unchanged, and makes exactly
\* one transfer of amount from the trader to the vault; a non-positive amount
\* or a wrong denomination is rejected.
C5_AddMarginAddsExactlyAmount ==
    marginCall.op = "AddMargin" =>
      /\ marginCall.err = "ok"
           => /\ marginCall.amount > 0 /\ marginCall.denom = StableDenom
              /\ position = [marginCall.before EXCEPT
                               !.margin = @ + ToDec(marginCall.amount)]
              /\ marginCall.transfers =
                   << [from |-> "trader", to |-> "vault", amount |-> marginCall.amount] >>
              /\ traderBalance = marginCall.traderBefore - marginCall.amount
              /\ vaultBalance = marginCall.vaultBefore + marginCall.amount
      /\ (marginCall.amount <= 0 \/ marginCall.denom # StableDenom)
           => (marginCall.err # "ok" /\ NothingMoved /\ position = marginCall.before)

\* margin added while funding is pending: the premium fraction stays behind
C5_Witness ==
    /\ marginCall.op = "AddMargin" /\ marginCall.err = "ok"
    /\ marginCall.amount = 2
    /\ marginCall.cpf # marginCall.before.lastCPF
    /\ position.lastCPF = marginCall.before.lastCPF
    /\ position.margin = marginCall.before.margin + ToDec(2)

(* ----------------------- properties of the pool ------------------------ *)

\* C6: after pool creation and any sequence of operations both reserves are
\* strictly positive, and an operation that fails does not mutate the pool.
C6_ReservesStrictlyPositive ==
    /\ pool.exists => (pool.base > 0 /\ pool.quote > 0)
    /\ poolCall.err # "ok" => pool = poolCall.before

StoredCounters == { c \in Counters : snapshots[c].found }

\* C8: after creation and any sequence of reserve mutations the stored
\* snapshots are exactly those of counters 0..latest, one per creation or
\* mutation that succeeded, the stored counter is latest, and timestamps do
\* not decrease with the counter.
C8_SnapshotHistoryIsGapless ==
    /\ ~pool.exists => (StoredCounters = {} /\ ~snapshotCounter.found)
    /\ pool.exists =>
         /\ snapshotCounter.found
         /\ StoredCounters = 0 .. snapshotCounter.value
         /\ Cardinality(StoredCounters) = poolCall.events
         /\ \A c \in StoredCounters :
              c > 0 => snapshots[c - 1].ts <= snapshots[c].ts
         /\ snapshots[snapshotCounter.value].quote = pool.quote
         /\ snapshots[snapshotCounter.value].base = pool.base

\* creation and two swaps in later blocks, then a swap that failed
C8_Witness ==
    /\ pool.exists
    /\ snapshotCounter.value = 2
    /\ snapshots[0].ts < snapshots[1].ts /\ snapshots[1].ts < snapshots[2].ts
    /\ snapshots[1].base # snapshots[2].base
    /\ poolCall.events = 3

\* the first snapshot, in decreasing counter order, at or before lowerBound
EdgeSnapshot == CHOOSE i \in AtOrBeforeLowerBound : \A j \in AtOrBeforeLowerBound : j <= i

\* the timestamp the walk holds as previous when it processes snapshot i
PreviousTimestampOf(i) == IF i = Latest THEN blockTime ELSE snapshots[i + 1].ts

\* C11: the walk stops right after the first snapshot (in decreasing counter
\* order) at or before lowerBound: the counters read are latest down to that
\* snapshot and none below it, that snapshot is weighted by
\* previousTimestamp - lowerBound, and the returned price is built from the
\* snapshots read alone.
C11_WalkStopsAtWindowEdge ==
    (twap.called /\ HistoryWellFormed /\ PricesDefined /\ AtOrBeforeLowerBound # {})
      => LET e == EdgeSnapshot
             newer == (e + 1) .. Latest
         IN  /\ Len(twap.read) = Latest - e + 1
             /\ \A n \in 1 .. Len(twap.read) : twap.read[n] = Latest - n + 1
             /\ twap.err \in {"ok", "panic"}
             /\ twap.err = "ok" =>
                  /\ twap.period - SumDurations(newer)
                       = PreviousTimestampOf(e) - LowerBound
                  /\ twap.price = DecQuoInt64(
                       SumWeightedPrices(newer)
                         + PriceOf(e).price * (PreviousTimestampOf(e) - LowerBound),
                       twap.period)

\* three snapshots with different prices; the middle one lies before the
\* window's edge and is clipped, the oldest is never read
C11_Witness ==
    /\ twap.called /\ twap.err = "ok" /\ twap.option = "Spot"
    /\ Latest = 2 /\ twap.read = <<2, 1>>
    /\ snapshots[1].ts < LowerBound /\ snapshots[2].ts > LowerBound
    /\ snapshots[2].ts < blockTime
    /\ snapshots[0].base # 0
    /\ PriceOf(0).price # PriceOf(1).price /\ PriceOf(1).price # PriceOf(2).price

(* ------------- calcTwap over a store written key by key ---------------- *)

StorePairs == { <<ToDec(90), ToDec(10)>> }

\* a keeper whose pair has neither snapshots nor a snapshot counter
StoreInit ==
    /\ pool = NoPool /\ poolCall = NoPoolCall
    /\ snapshots = NoSnapshots
    /\ snapshotCounter = [found |-> FALSE, value |-> 0]
    /\ blockTime = 0 /\ blockHeight = 0 /\ twap = NoTwap
    /\ PerpIdle

\* Keeper.saveSnapshot under a key of the caller's choice
SaveSnapshot(c, rp) ==
    /\ ~twap.called
    /\ c \in 0 .. MaxCounter
    /\ ~snapshots[c].found
    /\ snapshots' = [snapshots EXCEPT ![c] = NewSnapshot(rp[1], rp[2], blockTime, blockHeight)]
    /\ UNCHANGED <<snapshotCounter, blockTime, blockHeight, twap, pool, poolCall, perpVars>>

\* Keeper.saveSnapshotCounter
SaveSnapshotCounter(c) ==
    /\ ~twap.called
    /\ snapshotCounter' = [found |-> TRUE, value |-> c]
    /\ UNCHANGED <<snapshots, blockTime, blockHeight, twap, pool, poolCall, perpVars>>

StoreNext ==
    \/ \E c \in 0 .. MaxCounter, rp \in StorePairs : SaveSnapshot(c, rp)
    \/ \E c \in 0 .. MaxCounter : SaveSnapshotCounter(c)
    \/ \E t \in 0 .. MaxTime : SetBlockTime(t)
    \/ \E lb \in 0 .. MaxLookback : CalcTwap("Spot", "AddToPool", 0, lb)
    \/ \E a \in TwapAmounts, lb \in 0 .. MaxLookback :
          CalcTwap("BaseAssetSwap", "AddToPool", a, lb)

SpecStore == StoreInit /\ [][StoreNext]_vars

\* the walk gets as far as counter c: every snapshot above c is stored, has a
\* price and is newer than lowerBound
WalkReaches(c) ==
    \A j \in (c + 1) .. Latest :
        /\ snapshots[j].found
        /\ PriceOf(j).err = "ok"
        /\ snapshots[j].ts > LowerBound

\* C12: calcTwap returns an error and no price when the pair has no snapshot
\* counter (SnapshotCounterNotFound) or when a snapshot the walk reaches is
\* absent (SnapshotNotFound); a call that returns a price has read every
\* counter from latest down to where it stopped, skipping none.
C12_MissingHistoryIsAnError ==
    twap.called =>
      /\ ~snapshotCounter.found
           => (twap.err = "SnapshotCounterNotFound" /\ twap.price = 0 /\ twap.read = <<>>)
      /\ snapshotCounter.found
           => \A c \in 0 .. Latest :
                (WalkReaches(c) /\ ~snapshots[c].found)
                  => /\ twap.err = "SnapshotNotFound" /\ twap.price = 0
                     /\ twap.read[Len(twap.read)] = c
      /\ twap.err = "ok"
           => \A n \in 1 .. Len(twap.read) :
                twap.read[n] = Latest - n + 1 /\ snapshots[twap.read[n]].found

\* a gap in the middle of the history: snapshot 2 is processed, snapshot 1 is
\* absent, snapshot 0 is stored but never reached
C12_Witness ==
    /\ twap.called /\ twap.err = "SnapshotNotFound"
    /\ Latest = 2 /\ snapshots[2].found /\ ~snapshots[1].found /\ snapshots[0].found
    /\ twap.read = <<2, 1>>

(* ---------------------- the keeper's price queries --------------------- *)

\* largest whole reserve of a queried pool; amounts go one unit beyond it
MaxPriceReserve == 10

\* Keeper.GetSpotPrice: quote reserve over base reserve of the stored pool;
\* Dec.Quo panics on a zero divisor
getSpotPrice(p) ==
    IF ~p.exists THEN [err |-> "PoolNotFound", amount |-> 0]
    ELSE IF p.base = 0 THEN [err |-> "panic", amount |-> 0]
    ELSE [err |-> "ok", amount |-> DecQuo(p.quote, p.base)]

\* a keeper that refuses to price a zero amount
getBaseAssetPriceRefusingZero(p, dir, baseAssetAmount) ==
    IF ~p.exists THEN [err |-> "PoolNotFound", amount |-> 0]
    ELSE IF baseAssetAmount = 0 THEN [err |-> "ZeroAmount", amount |-> 0]
    ELSE GetQuoteAmountByBaseAmount(p.quote, p.base, dir, baseAssetAmount)

\* Keeper.GetBaseAssetPrice
getBaseAssetPrice(p, dir, baseAssetAmount) ==
    IF ~p.exists THEN [err |-> "PoolNotFound", amount |-> 0]
    ELSE GetQuoteAmountByBaseAmount(p.quote, p.base, dir, baseAssetAmount)

\* Keeper.GetQuoteAssetPrice
getQuoteAssetPrice(p, dir, quoteAmount) ==
    IF ~p.exists THEN [err |-> "PoolNotFound", amount |-> 0]
    ELSE GetBaseAmountByQuoteAmount(p.quote, p.base, dir, quoteAmount)

PriceReserves == { ToDec(n) : n \in 0 .. MaxPriceReserve }

PriceAmounts == { ToDec(n) : n \in 0 .. (MaxPriceReserve + 1) }

\* a keeper with no pool for the pair, or with a pool just created
PriceInit ==
    /\ \E q \in PriceReserves, b \in PriceReserves :
         \/ /\ pool = NoPool
            /\ snapshots = NoSnapshots
            /\ snapshotCounter = [found |-> FALSE, value |-> 0]
         \/ /\ pool = NewVpool(q, b).pool
            /\ snapshots = [NoSnapshots EXCEPT ![0] = NewSnapshot(q, b, 0, 0)]
            /\ snapshotCounter = [found |-> TRUE, value |-> 0]
    /\ poolCall = NoPoolCall
    /\ blockTime = 0 /\ blockHeight = 0 /\ twap = NoTwap
    /\ PerpIdle

\* a query writes nothing; the model keeps the record of the call
QueryOf(op, dir, amount, r) == PoolCallOf(op, r.err, dir, amount, r.amount, 0)

QueryLeaves ==
    UNCHANGED <<pool, snapshots, snapshotCounter, blockTime, blockHeight, twap, perpVars>>

GetSpotPrice ==
    /\ poolCall' = QueryOf("GetSpotPrice", "AddToPool", 0, getSpotPrice(pool))
    /\ QueryLeaves

GetBaseAssetPrice(dir, baseAssetAmount) ==
    /\ poolCall' = QueryOf("GetBaseAssetPrice", dir, baseAssetAmount,
                           getBaseAssetPrice(pool, dir, baseAssetAmount))
    /\ QueryLeaves

GetQuoteAssetPrice(dir, quoteAmount) ==
    /\ poolCall' = QueryOf("GetQuoteAssetPrice", dir, quoteAmount,
                           getQuoteAssetPrice(pool, dir, quoteAmount))
    /\ QueryLeaves

PriceNext ==
    \/ GetSpotPrice
    \/ \E d \in Directions, a \in PriceAmounts : GetBaseAssetPrice(d, a)
    \/ \E d \in Directions, a \in PriceAmounts : GetQuoteAssetPrice(d, a)

SpecPrices == PriceInit /\ [][PriceNext]_vars

\* n is the integer nearest to num / den (den > 0), a tie going to the even one
NearestHalfEven(n, num, den) ==
    /\ 2 * Abs(n * den - num) <= den
    /\ 2 * Abs(n * den - num) = den => n % 2 = 0

\* n is num / den (num >= 0, den > 0) cut off toward zero
CutOffTowardZero(n, num, den) == n * den <= num /\ num < (n + 1) * den

\* the last call was a base-asset price that returned an amount for a
\* non-zero input
BasePriceReturned ==
    /\ poolCall.op = "GetBaseAssetPrice" /\ poolCall.err = "ok"
    /\ poolCall.amount # 0

\* the constant product and the base reserve after the move, for that call
CallK == DecMul(poolCall.before.quote, poolCall.before.base)

CallBaseAfter ==
    IF poolCall.dir = "AddToPool" THEN poolCall.before.base + poolCall.amount
    ELSE poolCall.before.base - poolCall.amount

\* k / baseAfter as the call must have computed it, recovered from its result
CallQuotient ==
    IF poolCall.dir = "AddToPool" THEN poolCall.before.quote - poolCall.out
    ELSE poolCall.before.quote + poolCall.out

\* C13 as claimed: getBaseAssetPrice returns quote - k / (base + amount) for
\* AddToPool and k / (base - amount) - quote for RemoveFromPool with the
\* division truncated toward zero, and does not change the pool.
C13_BasePriceTruncates ==
    BasePriceReturned =>
      /\ CutOffTowardZero(CallQuotient, CallK * DecScale, CallBaseAfter)
      /\ pool = poolCall.before

\* C13 amended: the same formulas with the division rounded to the nearest
\* decimal (a tie to the even one) instead of truncated; the pool is not
\* changed.
C13_BasePriceRoundsToNearest ==
    BasePriceReturned =>
      /\ NearestHalfEven(CallQuotient, CallK * DecScale, CallBaseAfter)
      /\ pool = poolCall.before

\* reserves 10 / 10, 5 base added: k / 15 = 6.666... is rounded up, so the
\* amount is 3.333 and not 3.334
C13_Witness ==
    /\ BasePriceReturned /\ poolCall.dir = "AddToPool"
    /\ poolCall.before.base = ToDec(10) /\ poolCall.before.quote = ToDec(10)
    /\ poolCall.amount = ToDec(5)
    /\ 3 * poolCall.out < ToDec(10)
    /\ 3 * (poolCall.out + 1) > ToDec(10)

\* the last call was a price query on a stored pool
PriceQueried ==
    /\ poolCall.op \in {"GetBaseAssetPrice", "GetQuoteAssetPrice"}
    /\ poolCall.before.exists

\* the reserve the last query would move
MovedReserve ==
    IF poolCall.op = "GetBaseAssetPrice" THEN poolCall.before.base
    ELSE poolCall.before.quote

ReserveAtZeroError ==
    IF poolCall.op = "GetBaseAssetPrice" THEN "BaseReserveAtZero"
    ELSE "QuoteReserveAtZero"

\* C14: a removal of amount >= the reserve it would move is rejected with
\* BaseReserveAtZero (getBaseAssetPrice) or QuoteReserveAtZero
\* (getQuoteAssetPrice); no amount is returned and the pool is unchanged.
C14_RemovalBeyondReserveFails ==
    (PriceQueried /\ poolCall.dir = "RemoveFromPool" /\ poolCall.amount >= MovedReserve)
      => /\ poolCall.err = ReserveAtZeroError
         /\ poolCall.out = 0
         /\ pool = poolCall.before

\* the same for the removals that ask for something: these are all rejected
RemovalOfPositiveAmountBeyondReserveFails ==
    (/\ PriceQueried /\ poolCall.dir = "RemoveFromPool"
     /\ poolCall.amount > 0 /\ poolCall.amount >= MovedReserve)
      => /\ poolCall.err = ReserveAtZeroError
         /\ poolCall.out = 0
         /\ pool = poolCall.before

\* C15: with a zero input amount getBaseAssetPrice and getQuoteAssetPrice
\* return exactly zero and no error, for every pool with positive reserves
\* and either direction.
C15_ZeroAmountPricesZero ==
    (/\ PriceQueried /\ poolCall.amount = 0
     /\ poolCall.before.base > 0 /\ poolCall.before.quote > 0)
      => /\ poolCall.err = "ok"
         /\ poolCall.out = 0
         /\ pool = poolCall.before

\* a zero removal priced on a pool with unequal positive reserves
C15_Witness ==
    /\ poolCall.op = "GetBaseAssetPrice" /\ poolCall.dir = "RemoveFromPool"
    /\ poolCall.amount = 0 /\ poolCall.err = "ok" /\ poolCall.out = 0
    /\ poolCall.before.exists
    /\ poolCall.before.base = ToDec(3) /\ poolCall.before.quote = ToDec(10)

(* ------------------ a swap and the swap back (round trip) -------------- *)

\* a pool just created, with its creation snapshot
RoundTripInit ==
    /\ \E q \in PriceReserves, b \in PriceReserves :
         /\ pool = NewVpool(q, b).pool
         /\ snapshots = [NoSnapshots EXCEPT ![0] = NewSnapshot(q, b, 0, 0)]
    /\ snapshotCounter = [found |-> TRUE, value |-> 0]
    /\ poolCall = [NoPoolCall EXCEPT !.events = 1]
    /\ blockTime = 0 /\ blockHeight = 0 /\ twap = NoTwap
    /\ PerpIdle

\* the quote amount a base swap gave out is added back to the quote reserve
SwapBack ==
    /\ poolCall.op = "SwapBaseForQuote" /\ poolCall.err = "ok"
    /\ poolCall.dir = "AddToPool"
    /\ SwapQuoteForBase("AddToPool", poolCall.out)

RoundTripNext ==
    \/ \E a \in PriceAmounts : SwapBaseForQuote("AddToPool", a)
    \/ SwapBack

SpecRoundTrip == RoundTripInit /\ [][RoundTripNext]_vars

\* the reserves before the base swap of a completed round trip
RoundTripDone == poolCall.op = "SwapQuoteForBase" /\ poolCall.err = "ok"

Original == snapshots[snapshotCounter.value - 2]

\* units of the last decimal place the base reserve may be off by: half a
\* unit of each rounded division, scaled by the reserve ratio of the
\* intermediate pool
RoundTripTolerance ==
    (poolCall.before.base + 2 * Original.quote) \div (2 * Original.quote)

C17_SpotPriceIsTruncatedQuotient ==
    poolCall.op = "GetSpotPrice" =>
      /\ poolCall.before.exists
           => /\ poolCall.err = "ok"
              /\ CutOffTowardZero(poolCall.out, poolCall.before.quote * DecScale,
                                  poolCall.before.base)
      /\ ~poolCall.before.exists
           => (poolCall.err = "PoolNotFound" /\ poolCall.out = 0)
      /\ pool = poolCall.before

\* what getSpotPrice does: PoolNotFound without a pool, the panic of the
\* division on a zero base reserve, else the quotient rounded to nearest
SpotPriceIsRoundedQuotient ==
    poolCall.op = "GetSpotPrice" =>
      /\ (poolCall.before.exists /\ poolCall.before.base # 0)
           => /\ poolCall.err = "ok"
              /\ NearestHalfEven(poolCall.out, poolCall.before.quote * DecScale,
                                 poolCall.before.base)
      /\ (poolCall.before.exists /\ poolCall.before.base = 0)
           => poolCall.err = "panic"
      /\ ~poolCall.before.exists
           => (poolCall.err = "PoolNotFound" /\ poolCall.out = 0)
      /\ pool = poolCall.before

(***************************************************************************)
(* Pool limits: Vpool.HasEnoughQuoteReserve, Vpool.GetMarkPrice and        *)
(* Vpool.IsOverFluctuationLimitInRelationWithSnapshot, as the tests of the *)
(* pool type pin them down.                                                *)
(***************************************************************************)
MaxLimitQuote == 12

\* the mutant of hasEnoughQuoteReserve: the boundary amount is refused
hasEnoughQuoteReserveStrict(p, quoteAmount) ==
    quoteAmount < DecMul(p.quote, p.tradeLimitRatio)

\* Vpool.HasEnoughQuoteReserve
hasEnoughQuoteReserve(p, quoteAmount) ==
    quoteAmount <= DecMul(p.quote, p.tradeLimitRatio)

\* Vpool.GetMarkPrice: zero when a reserve is missing or zero
getMarkPrice(quoteReserve, baseReserve) ==
    IF baseReserve = 0 \/ quoteReserve = 0
    THEN 0
    ELSE DecQuo(quoteReserve, baseReserve)

\* ReserveSnapshot's upper and lower mark price fluctuation limits
upperMarkPriceFluctuationLimit(snap, ratio) ==
    DecMul(getMarkPrice(snap.quote, snap.base), ToDec(1) + ratio)

lowerMarkPriceFluctuationLimit(snap, ratio) ==
    DecMul(getMarkPrice(snap.quote, snap.base), ToDec(1) - ratio)

\* the mutant of isOverFluctuationLimit: a zero ratio is a band of zero width
isOverFluctuationLimitZeroBand(p, snap) ==
    LET markPrice == getMarkPrice(p.quote, p.base)
    IN  \/ markPrice > upperMarkPriceFluctuationLimit(snap, p.fluctuationLimitRatio)
        \/ markPrice < lowerMarkPriceFluctuationLimit(snap, p.fluctuationLimitRatio)

\* the mutant of isOverFluctuationLimit: a zero ratio forbids every move
isOverFluctuationLimitZeroForbids(p, snap) ==
    LET markPrice == getMarkPrice(p.quote, p.base)
    IN  IF p.fluctuationLimitRatio = 0
        THEN markPrice # getMarkPrice(snap.quote, snap.base)
        ELSE \/ markPrice > upperMarkPriceFluctuationLimit(snap, p.fluctuationLimitRatio)
             \/ markPrice < lowerMarkPriceFluctuationLimit(snap, p.fluctuationLimitRatio)

\* Vpool.IsOverFluctuationLimitInRelationWithSnapshot: a zero ratio switches
\* the limit off
isOverFluctuationLimit(p, snap) ==
    IF p.fluctuationLimitRatio = 0
    THEN FALSE
    ELSE LET markPrice == getMarkPrice(p.quote, p.base)
         IN  \/ markPrice > upperMarkPriceFluctuationLimit(snap, p.fluctuationLimitRatio)
             \/ markPrice < lowerMarkPriceFluctuationLimit(snap, p.fluctuationLimitRatio)

BoolOut(b) == IF b THEN 1 ELSE 0

LimitRatios == { 0, DecScale \div 10, (9 * DecScale) \div 10, ToDec(1) }
LimitQuotes == { ToDec(n) : n \in 0 .. MaxLimitQuote }
LimitBases == { ToDec(1), ToDec(2) }
SnapshotQuotes == { ToDec(5), ToDec(10) }
LimitAmounts == { ToDec(n) + d : n \in 1 .. MaxLimitQuote, d \in {-1, 0, 1} }

\* a pool whose reserves moved since snapshot 0 was taken; snapshot 1 holds
\* its current reserves
LimitInit ==
    /\ \E q0 \in SnapshotQuotes, q \in LimitQuotes, b \in LimitBases,
          tr \in LimitRatios, fr \in LimitRatios :
         /\ pool = [NewVpool(q, b).pool EXCEPT !.tradeLimitRatio = tr,
                                               !.fluctuationLimitRatio = fr]
         /\ snapshots = [c \in Counters |->
                           IF c = 0 THEN NewSnapshot(q0, b, 0, 0)
                           ELSE IF c = 1 THEN NewSnapshot(q, b, 0, 0)
                           ELSE NoSnapshot]
    /\ snapshotCounter = [found |-> TRUE, value |-> 1]
    /\ poolCall = NoPoolCall
    /\ blockTime = 0 /\ blockHeight = 0 /\ twap = NoTwap
    /\ PerpIdle

HasEnoughQuoteReserve(quoteAmount) ==
    /\ poolCall' = PoolCallOf("HasEnoughQuoteReserve", "ok", "AddToPool", quoteAmount,
                              BoolOut(hasEnoughQuoteReserve(pool, quoteAmount)), 0)
    /\ QueryLeaves

IsOverFluctuationLimit ==
    /\ poolCall' = PoolCallOf("IsOverFluctuationLimit", "ok", "AddToPool", 0,
                              BoolOut(isOverFluctuationLimit(pool, snapshots[0])), 0)
    /\ QueryLeaves

LimitNext ==
    \/ \E a \in LimitAmounts : HasEnoughQuoteReserve(a)
    \/ IsOverFluctuationLimit

SpecLimits == LimitInit /\ [][LimitNext]_vars

\* C18: hasEnoughQuoteReserve(amount) is true if and only if amount <=
\* quoteAssetReserve * tradeLimitRatio: true at exactly the boundary value,
\* false one unit of the last decimal place above it.
TradeLimitProduct == poolCall.before.quote * poolCall.before.tradeLimitRatio

\* the product at the decimal precision is one of the two neighbours of the
\* exact product
TradeLimitCandidates ==
    { TradeLimitProduct \div DecScale, (TradeLimitProduct \div DecScale) + 1 }

C18_EnoughQuoteReserveUpToTradeLimit ==
    poolCall.op = "HasEnoughQuoteReserve" =>
      /\ \A limit \in TradeLimitCandidates :
           NearestHalfEven(limit, TradeLimitProduct, DecScale) =>
             /\ (poolCall.out = 1) <=> (poolCall.amount <= limit)
             /\ poolCall.amount = limit => poolCall.out = 1
             /\ poolCall.amount = limit + 1 => poolCall.out = 0
      /\ pool = poolCall.before

C18_Witness ==
    /\ poolCall.op = "HasEnoughQuoteReserve"
    /\ poolCall.before.quote = ToDec(10)
    /\ poolCall.before.tradeLimitRatio = (9 * DecScale) \div 10
    /\ NearestHalfEven(poolCall.amount, TradeLimitProduct, DecScale)
    /\ poolCall.amount > 0
    /\ poolCall.out = 1

\* C19: isOverFluctuationLimit(pool, snapshot) is true if and only if the
\* pool's mark price lies strictly outside the band [snapshotPrice * (1 -
\* fluctuationLimitRatio), snapshotPrice * (1 + fluctuationLimitRatio)]; a
\* mark price exactly on either bound is not over the limit.
LimitMarkPrice == getMarkPrice(poolCall.before.quote, poolCall.before.base)

BandUpper == upperMarkPriceFluctuationLimit(snapshots[0], poolCall.before.fluctuationLimitRatio)

BandLower == lowerMarkPriceFluctuationLimit(snapshots[0], poolCall.before.fluctuationLimitRatio)

StrictlyOutsideBand == LimitMarkPrice > BandUpper \/ LimitMarkPrice < BandLower

C19_OverLimitIffOutsideBand ==
    poolCall.op = "IsOverFluctuationLimit" =>
      ((poolCall.out = 1) <=> StrictlyOutsideBand)

\* C19 as the code has it: a fluctuationLimitRatio of zero switches the limit
\* off, and the result is then false whatever the mark price; with a non-zero
\* ratio the result is true exactly when the mark price is strictly outside
\* the band, a price on either bound not being over the limit.
C19_OverLimitIffOutsideBandOfNonZeroRatio ==
    poolCall.op = "IsOverFluctuationLimit" =>
      /\ (poolCall.out = 1)
           <=> (poolCall.before.fluctuationLimitRatio # 0 /\ StrictlyOutsideBand)
      /\ (LimitMarkPrice = BandUpper \/ LimitMarkPrice = BandLower)
           => poolCall.out = 0
      /\ pool = poolCall.before

C19_Witness ==
    /\ poolCall.op = "IsOverFluctuationLimit"
    /\ poolCall.before.fluctuationLimitRatio = 0
    /\ StrictlyOutsideBand
    /\ poolCall.out = 0

\* a price on the upper bound of a band of non-zero width is not over the limit
OnUpperBoundReached ==
    /\ poolCall.op = "IsOverFluctuationLimit"
    /\ poolCall.before.fluctuationLimitRatio = DecScale \div 10
    /\ LimitMarkPrice = BandUpper
    /\ BandUpper > BandLower
    /\ poolCall.out = 0

OverLimitReached ==
    /\ poolCall.op = "IsOverFluctuationLimit"
    /\ poolCall.before.fluctuationLimitRatio # 0
    /\ poolCall.out = 1

(***************************************************************************)
(* Keeper.GetMarginRatio.  The notional and the unrealized PnL come from   *)
(* the pool's prices; they enter as an outcome of the call.                *)
(***************************************************************************)
\* the mutant of getMarginRatio: the notional is asked for before the size
\* is looked at
getMarginRatioCheckingSizeLast(pos, notionalOutcome, remainErr, cpf) ==
    IF notionalOutcome.err # "ok"
    THEN [err |-> notionalOutcome.err, value |-> 0, steps |-> <<"notional">>]
    ELSE IF remainErr
    THEN [err |-> "RemainMarginError", value |-> 0, steps |-> <<"notional", "funding">>]
    ELSE IF pos.size = 0 \/ notionalOutcome.notional = 0
    THEN [err |-> "panic", value |-> 0, steps |-> <<"notional", "funding">>]
    ELSE LET remaining == CalcRemainMarginWithFundingPayment(pos, notionalOutcome.pnl, cpf)
         IN  [err |-> "ok",
              value |-> DecQuo(remaining.margin - remaining.badDebt, notionalOutcome.notional),
              steps |-> <<"notional", "funding">>]

\* the mutant of getMarginRatio: the bad debt is left out of the ratio
getMarginRatioIgnoringBadDebt(pos, notionalOutcome, remainErr, cpf) ==
    IF pos.size = 0
    THEN [err |-> "panic", value |-> 0, steps |-> <<>>]
    ELSE IF notionalOutcome.err # "ok"
    THEN [err |-> notionalOutcome.err, value |-> 0, steps |-> <<"notional">>]
    ELSE IF remainErr
    THEN [err |-> "RemainMarginError", value |-> 0, steps |-> <<"notional", "funding">>]
    ELSE IF notionalOutcome.notional = 0
    THEN [err |-> "panic", value |-> 0, steps |-> <<"notional", "funding">>]
    ELSE LET remaining == CalcRemainMarginWithFundingPayment(pos, notionalOutcome.pnl, cpf)
         IN  [err |-> "ok",
              value |-> DecQuo(remaining.margin, notionalOutcome.notional),
              steps |-> <<"notional", "funding">>]

\* Keeper.GetMarginRatio; steps lists the computations entered
getMarginRatio(pos, notionalOutcome, remainErr, cpf) ==
    IF pos.size = 0
    THEN [err |-> "panic", value |-> 0, steps |-> <<>>]
    ELSE IF notionalOutcome.err # "ok"
    THEN [err |-> notionalOutcome.err, value |-> 0, steps |-> <<"notional">>]
    ELSE IF remainErr
    THEN [err |-> "RemainMarginError", value |-> 0, steps |-> <<"notional", "funding">>]
    ELSE IF notionalOutcome.notional = 0
    THEN [err |-> "panic", value |-> 0, steps |-> <<"notional", "funding">>]
    ELSE LET remaining == CalcRemainMarginWithFundingPayment(pos, notionalOutcome.pnl, cpf)
         IN  [err |-> "ok",
              value |-> DecQuo(remaining.margin - remaining.badDebt, notionalOutcome.notional),
              steps |-> <<"notional", "funding">>]

\* the valuations of a position the pool's spot price and TWAP can give
Valuations ==
    { [pnl |-> ToDec(p), notional |-> ToDec(n)] : p \in {0 - 1, 1}, n \in {0, 1, 2} }

\* getPreferencePositionNotionalAndUnrealizedPnL with
\* PnLPreferenceOption_MAX: the valuation of the higher unrealized PnL
getPreferencePositionNotionalAndUnrealizedPnL(spot, twapBased, failed) ==
    IF failed
    THEN [err |-> "NotionalError", pnl |-> 0, notional |-> 0]
    ELSE IF spot.pnl > twapBased.pnl
    THEN [err |-> "ok", pnl |-> spot.pnl, notional |-> spot.notional]
    ELSE [err |-> "ok", pnl |-> twapBased.pnl, notional |-> twapBased.notional]

\* what getPreferencePositionNotionalAndUnrealizedPnL can give back
NotionalOutcomes ==
    { getPreferencePositionNotionalAndUnrealizedPnL(s, t, f) :
        s \in Valuations, t \in Valuations, f \in BOOLEAN }

RatioPositions ==
    { [found |-> TRUE, size |-> sz, margin |-> m, lastCPF |-> l] :
        sz \in {ToDec(2), 0, ToDec(0 - 1)}, m \in {0, ToDec(1), ToDec(3)},
        l \in CPFValues }

RatioInit ==
    /\ pool = SomePool /\ poolCall = NoPoolCall
    /\ snapshots = [NoSnapshots EXCEPT ![0] = NewSnapshot(ToDec(10), ToDec(10), 0, 0)]
    /\ snapshotCounter = [found |-> TRUE, value |-> 0]
    /\ blockTime = 0 /\ blockHeight = 0 /\ twap = NoTwap
    /\ position \in RatioPositions
    /\ traderBalance = 0
    /\ vaultBalance = 0
    /\ latestCPF = 0
    /\ marginCall = NoMarginCall
    /\ DexIdle

GetMarginRatio(spot, twapBased, notionalFailed, remainErr) ==
    LET notionalOutcome ==
          getPreferencePositionNotionalAndUnrealizedPnL(spot, twapBased, notionalFailed)
        r == getMarginRatio(position, notionalOutcome, remainErr, latestCPF)
    IN  /\ notionalOutcome \in NotionalOutcomes
        /\ marginCall' = [op |-> "GetMarginRatio", err |-> r.err, value |-> r.value,
                          steps |-> r.steps, before |-> position, cpf |-> latestCPF,
                          spot |-> spot, twapBased |-> twapBased,
                          remaining |-> CalcRemainMarginWithFundingPayment(
                                          position, notionalOutcome.pnl, latestCPF),
                          notionalFailed |-> notionalFailed, remainErr |-> remainErr]
        /\ UNCHANGED <<position, traderBalance, vaultBalance, latestCPF, vpoolVars>>

RatioNext ==
    \/ \E s \in Valuations, t \in Valuations, nf \in BOOLEAN, re \in BOOLEAN :
         GetMarginRatio(s, t, nf, re)
    \/ \E cpf \in CPFValues : SettleFunding(cpf)

SpecMarginRatio == RatioInit /\ [][RatioNext]_vars

\* C20: getMarginRatio halts (a fatal failure: no value, no recoverable
\* error) for every position with size zero, before any price or funding
\* computation is performed.
C20_ZeroSizeHaltsBeforeAnyComputation ==
    (marginCall.op = "GetMarginRatio" /\ marginCall.before.size = 0) =>
      /\ marginCall.err = "panic"
      /\ marginCall.value = 0
      /\ marginCall.steps = <<>>
      /\ position = marginCall.before

C20_Witness ==
    /\ marginCall.op = "GetMarginRatio"
    /\ marginCall.before.size = 0
    /\ marginCall.before.margin = ToDec(3)
    /\ marginCall.err = "panic"

\* a position with a size gets its ratio
RatioReturned ==
    /\ marginCall.op = "GetMarginRatio"
    /\ marginCall.before.size # 0
    /\ marginCall.err = "ok"
    /\ marginCall.value > 0

\* C21: for a position with non-zero size, getMarginRatio returns (margin -
\* badDebt) / notional, where (unrealizedPnL, notional) is the valuation of
\* the higher unrealized PnL among the spot-based and the TWAP-based one and
\* (margin, badDebt) is the result of calcRemainMarginWithFundingPayment on
\* the position with marginDelta = unrealizedPnL; the stored position is not
\* modified.  A failure of either computation is returned as it is.
RatioCalled == marginCall.op = "GetMarginRatio" /\ marginCall.before.size # 0

PreferredValuations ==
    { v \in {marginCall.spot, marginCall.twapBased} :
        v.pnl >= marginCall.spot.pnl /\ v.pnl >= marginCall.twapBased.pnl }

ShortfallOf(v) ==
    marginCall.before.margin
      - DecMul(marginCall.cpf - marginCall.before.lastCPF, marginCall.before.size)
      + v.pnl

RatioIsOf(v) ==
    /\ v.notional # 0
    /\ NearestHalfEven(marginCall.value, ShortfallOf(v) * DecScale, v.notional)

C21_MarginRatioOfPreferredValuation ==
    RatioCalled =>
      /\ (~marginCall.notionalFailed /\ ~marginCall.remainErr /\ marginCall.err = "ok")
           => \E v \in PreferredValuations : RatioIsOf(v)
      /\ marginCall.notionalFailed => marginCall.err = "NotionalError"
      /\ (~marginCall.notionalFailed /\ marginCall.remainErr)
           => marginCall.err = "RemainMarginError"
      /\ position = marginCall.before

C21_Witness ==
    /\ RatioCalled
    /\ marginCall.err = "ok"
    /\ marginCall.spot.pnl > marginCall.twapBased.pnl
    /\ marginCall.spot.notional # marginCall.twapBased.notional
    /\ ShortfallOf(marginCall.spot) < 0
    /\ marginCall.value < 0
    /\ RatioIsOf(marginCall.spot)

\* C22: calcRemainMarginWithFundingPayment returns margin >= 0 and badDebt >=
\* 0 with at most one of them non-zero: if the position's margin minus the
\* accrued funding payment plus marginDelta is non-negative it is returned as
\* margin with badDebt = 0, otherwise margin = 0 and badDebt is the absolute
\* shortfall.
RemainComputed ==
    /\ marginCall.op = "GetMarginRatio"
    /\ Len(marginCall.steps) = 2

MarginDeltaOfCall ==
    IF marginCall.spot.pnl > marginCall.twapBased.pnl
    THEN marginCall.spot.pnl
    ELSE marginCall.twapBased.pnl

AccruedFunding ==
    DecMul(marginCall.cpf - marginCall.before.lastCPF, marginCall.before.size)

SignedRemainder == marginCall.before.margin - AccruedFunding + MarginDeltaOfCall

C22_RemainMarginFlooredAtZero ==
    RemainComputed =>
      /\ marginCall.remaining.margin >= 0
      /\ marginCall.remaining.badDebt >= 0
      /\ marginCall.remaining.margin = 0 \/ marginCall.remaining.badDebt = 0
      /\ SignedRemainder >= 0
           => /\ marginCall.remaining.margin = SignedRemainder
              /\ marginCall.remaining.badDebt = 0
      /\ SignedRemainder < 0
           => /\ marginCall.remaining.margin = 0
              /\ marginCall.remaining.badDebt = 0 - SignedRemainder

C22_Witness ==
    /\ RemainComputed
    /\ AccruedFunding > 0
    /\ SignedRemainder < 0
    /\ marginCall.remaining.badDebt > 0
    /\ marginCall.remaining.margin = 0

\* C23: addMargin and removeMargin reject a malformed sender, a wrong margin
\* denomination, a non-positive amount and a malformed pair before any read
\* of pool or position state, and on such a rejection perform no state write
\* and no collateral transfer.
MarginMessageSent == marginCall.op \in {"AddMargin", "RemoveMargin"}

ValidationErrorOfMessage ==
    IF ~validSender(marginCall.sender) THEN "InvalidSender"
    ELSE IF marginCall.denom # StableDenom THEN "InvalidDenom"
    ELSE IF marginCall.amount <= 0 THEN "NonPositiveMargin"
    ELSE IF ~validPairStr(marginCall.pair) THEN "InvalidPair"
    ELSE "ok"

C23_MalformedMessageRejectedBeforeAnyRead ==
    (MarginMessageSent /\ ValidationErrorOfMessage # "ok") =>
      /\ marginCall.err = ValidationErrorOfMessage
      /\ marginCall.reads = <<>>
      /\ position = marginCall.before
      /\ NothingMoved

C23_Witness ==
    /\ marginCall.op = "RemoveMargin"
    /\ marginCall.sender = "trader"
    /\ marginCall.denom = StableDenom
    /\ marginCall.amount > 0
    /\ marginCall.pair = "malformed"
    /\ marginCall.before.found
    /\ marginCall.err = "InvalidPair"
    /\ marginCall.reads = <<>>

\* a well-formed message reads the pool, then the position
WellFormedMessageReads ==
    (MarginMessageSent /\ ValidationErrorOfMessage = "ok") =>
      marginCall.reads \in { <<"pool">>, <<"pool", "position">> }

(***************************************************************************)
(* requireMoreMarginRatio, the guard of the callers of GetMarginRatio.     *)
(***************************************************************************)
MaxRatioSteps == 6

\* the mutant of requireMoreMarginRatio: the threshold itself does not pass
requireMoreMarginRatioStrict(marginRatio, baseMarginRatio, largerThanOrEqualTo) ==
    IF largerThanOrEqualTo
    THEN IF ~(marginRatio > baseMarginRatio) THEN "MarginRatioViolation" ELSE "ok"
    ELSE IF ~(marginRatio < baseMarginRatio) THEN "MarginRatioViolation" ELSE "ok"

requireMoreMarginRatio(marginRatio, baseMarginRatio, largerThanOrEqualTo) ==
    IF largerThanOrEqualTo
    THEN IF ~(marginRatio >= baseMarginRatio) THEN "MarginRatioViolation" ELSE "ok"
    ELSE IF ~(marginRatio < baseMarginRatio) THEN "MarginRatioViolation" ELSE "ok"

\* margin ratios and thresholds, in sixteenths; a margin ratio is negative
\* when the position has bad debt
RatioValues == { (k * DecScale) \div 16 : k \in (0 - 2) .. MaxRatioSteps }

RequireInit ==
    /\ pool = SomePool /\ poolCall = NoPoolCall
    /\ snapshots = [NoSnapshots EXCEPT ![0] = NewSnapshot(ToDec(10), ToDec(10), 0, 0)]
    /\ snapshotCounter = [found |-> TRUE, value |-> 0]
    /\ blockTime = 0 /\ blockHeight = 0 /\ twap = NoTwap
    /\ PerpIdle

RequireMoreMarginRatio(marginRatio, baseMarginRatio, largerThanOrEqualTo) ==
    /\ marginCall' = [op |-> "requireMoreMarginRatio",
                      err |-> requireMoreMarginRatio(marginRatio, baseMarginRatio,
                                                     largerThanOrEqualTo),
                      marginRatio |-> marginRatio,
                      baseMarginRatio |-> baseMarginRatio,
                      largerThanOrEqualTo |-> largerThanOrEqualTo]
    /\ UNCHANGED <<position, traderBalance, vaultBalance, latestCPF, vpoolVars>>

RequireNext ==
    \E mr \in RatioValues, base \in RatioValues, flag \in BOOLEAN :
      RequireMoreMarginRatio(mr, base, flag)

SpecRequire == RequireInit /\ [][RequireNext]_vars

\* C24: requireMoreMarginRatio(marginRatio, baseMarginRatio, flag) fails with
\* MarginRatioViolation exactly when flag is true and marginRatio <
\* baseMarginRatio, or flag is false and marginRatio >= baseMarginRatio; it
\* succeeds in every other case, marginRatio = baseMarginRatio with flag true
\* included.
C24_MarginRatioGuard ==
    marginCall.op = "requireMoreMarginRatio" =>
      /\ marginCall.err \in {"ok", "MarginRatioViolation"}
      /\ (marginCall.err = "MarginRatioViolation")
           <=> \/ (marginCall.largerThanOrEqualTo
                     /\ marginCall.marginRatio < marginCall.baseMarginRatio)
               \/ (~marginCall.largerThanOrEqualTo
                     /\ marginCall.marginRatio >= marginCall.baseMarginRatio)
      /\ (marginCall.largerThanOrEqualTo
            /\ marginCall.marginRatio = marginCall.baseMarginRatio)
           => marginCall.err = "ok"

C24_Witness ==
    /\ marginCall.op = "requireMoreMarginRatio"
    /\ marginCall.largerThanOrEqualTo
    /\ marginCall.marginRatio = marginCall.baseMarginRatio
    /\ marginCall.marginRatio > 0
    /\ marginCall.err = "ok"

(***************************************************************************)
(* The Vpool type: NewVpool with its arguments, VpoolConfig.Validate and   *)
(* Vpool.Validate.                                                         *)
(***************************************************************************)
NoVpool == [exists |-> FALSE]

\* DefaultVpoolConfig: the configuration the pool tests use as the valid one
DefaultVpoolConfig ==
    [tradeLimitRatio        |-> DecScale \div 10,
     fluctuationLimitRatio  |-> DecScale \div 10,
     maxOracleSpreadRatio   |-> DecScale \div 10,
     maintenanceMarginRatio |-> (625 * DecScale) \div 10000,
     maxLeverage            |-> ToDec(15)]

\* the mutant of NewVpoolOfArgs: the supplied config is dropped
NewVpoolWithDefaultConfig(args) ==
    LET r == NewVpool(args.quoteReserves, args.baseReserves)
    IN  IF r.err # "ok"
        THEN [err |-> r.err, vpool |-> NoVpool]
        ELSE [err |-> "ok",
              vpool |-> [exists |-> TRUE, pair |-> args.pair,
                         quote |-> r.pool.quote, base |-> r.pool.base,
                         sqrtDepth |-> r.pool.sqrtDepth,
                         config |-> DefaultVpoolConfig]]

\* NewVpool(args ArgsNewVpool): args.config is <<>> for a nil Config
NewVpoolOfArgs(args) ==
    LET r == NewVpool(args.quoteReserves, args.baseReserves)
    IN  IF r.err # "ok"
        THEN [err |-> r.err, vpool |-> NoVpool]
        ELSE [err |-> "ok",
              vpool |-> [exists |-> TRUE, pair |-> args.pair,
                         quote |-> r.pool.quote, base |-> r.pool.base,
                         sqrtDepth |-> r.pool.sqrtDepth,
                         config |-> IF args.config = <<>>
                                    THEN DefaultVpoolConfig
                                    ELSE args.config[1]]]

InUnitInterval(ratio) == ratio >= 0 /\ ratio <= ToDec(1)

\* the mutant of validateConfig: the product of maintenance margin ratio and
\* leverage is not looked at
validateConfigWithoutProduct(c) ==
    IF ~InUnitInterval(c.tradeLimitRatio) THEN "InvalidTradeLimitRatio"
    ELSE IF ~InUnitInterval(c.fluctuationLimitRatio) THEN "InvalidFluctuationLimitRatio"
    ELSE IF ~InUnitInterval(c.maxOracleSpreadRatio) THEN "InvalidMaxOracleSpreadRatio"
    ELSE IF ~InUnitInterval(c.maintenanceMarginRatio) THEN "InvalidMaintenanceMarginRatio"
    ELSE IF c.maxLeverage <= 0 THEN "InvalidMaxLeverage"
    ELSE "ok"

\* VpoolConfig.Validate
validateConfig(c) ==
    IF ~InUnitInterval(c.tradeLimitRatio) THEN "InvalidTradeLimitRatio"
    ELSE IF ~InUnitInterval(c.fluctuationLimitRatio) THEN "InvalidFluctuationLimitRatio"
    ELSE IF ~InUnitInterval(c.maxOracleSpreadRatio) THEN "InvalidMaxOracleSpreadRatio"
    ELSE IF ~InUnitInterval(c.maintenanceMarginRatio) THEN "InvalidMaintenanceMarginRatio"
    ELSE IF c.maxLeverage <= 0 THEN "InvalidMaxLeverage"
    ELSE IF DecMul(c.maintenanceMarginRatio, c.maxLeverage) > ToDec(1)
    THEN "MaxLeverageTooHigh"
    ELSE "ok"

\* Vpool.Validate
validate(m) ==
    IF m.pair = "" THEN "InvalidPair"
    ELSE IF m.base <= 0 THEN "InvalidBaseReserve"
    ELSE IF m.quote <= 0 THEN "InvalidQuoteReserve"
    ELSE validateConfig(m.config)

OuterRatios == { ToDec(0 - 1), DecScale \div 10, ToDec(2) }
UnitRatios == { ToDec(0 - 1), 0, DecScale \div 10, ToDec(1), ToDec(2) }
Leverages == { 0 - (DecScale \div 10), 0, ToDec(1), ToDec(10), ToDec(11) }
PairNames == { "", "btc:usd" }

Configs ==
    { DefaultVpoolConfig }
      \cup [tradeLimitRatio : UnitRatios, fluctuationLimitRatio : OuterRatios,
            maxOracleSpreadRatio : OuterRatios, maintenanceMarginRatio : UnitRatios,
            maxLeverage : Leverages]

\* the configuration of the custom-config case of the NewVpool test
CustomConfig ==
    [tradeLimitRatio        |-> DecScale \div 10,
     fluctuationLimitRatio  |-> DecScale \div 10,
     maxOracleSpreadRatio   |-> ToDec(1),
     maintenanceMarginRatio |-> DecQuo(ToDec(1), ToDec(18)),
     maxLeverage            |-> ToDec(12)]

ArgsNewVpool ==
    [pair : {"ubtc:unusd"}, quoteReserves : Reserves, baseReserves : Reserves,
     config : { <<>>, <<CustomConfig>> }]

\* a Vpool value as the tests build it, or none yet
TypeInit ==
    /\ \/ pool = NoVpool
       \/ \E pr \in PairNames, q \in {ToDec(0 - 1), 0, ToDec(1)},
             b \in {ToDec(0 - 1), 0, ToDec(1)}, c \in Configs :
            pool = [exists |-> TRUE, pair |-> pr, quote |-> q, base |-> b,
                    sqrtDepth |-> IF q > 0 /\ b > 0 THEN DecSqrt(DecMul(b, q)) ELSE 0,
                    config |-> c]
    /\ poolCall = [op |-> "none"]
    /\ snapshots = NoSnapshots
    /\ snapshotCounter = [found |-> FALSE, value |-> 0]
    /\ blockTime = 0 /\ blockHeight = 0 /\ twap = NoTwap
    /\ PerpIdle

TypeLeaves ==
    UNCHANGED <<snapshots, snapshotCounter, blockTime, blockHeight, twap, perpVars>>

NewVpoolCall(args) ==
    /\ ~pool.exists
    /\ poolCall' = [op |-> "NewVpool", err |-> NewVpoolOfArgs(args).err, args |-> args]
    /\ pool' = NewVpoolOfArgs(args).vpool
    /\ TypeLeaves

Validate ==
    /\ pool.exists
    /\ poolCall' = [op |-> "Validate", err |-> validate(pool), m |-> pool]
    /\ UNCHANGED pool
    /\ TypeLeaves

ValidateConfig(c) ==
    /\ poolCall' = [op |-> "ValidateConfig", err |-> validateConfig(c), config |-> c]
    /\ UNCHANGED pool
    /\ TypeLeaves

TypeNext ==
    \/ \E args \in ArgsNewVpool : NewVpoolCall(args)
    \/ Validate
    \/ ValidateConfig(DefaultVpoolConfig)

SpecType == TypeInit /\ [][TypeNext]_vars

\* C25: createPool with non-negative reserves creates a pool holding exactly
\* the given reserves, sqrtDepth = sqrt(baseReserve * quoteReserve), and the
\* supplied config, or the default config when none is supplied; createPool
\* with a negative reserve (negative product) fails and creates no pool.
NewVpoolCalled == poolCall.op = "NewVpool"

ReserveProduct == DecMul(poolCall.args.baseReserves, poolCall.args.quoteReserves)

IsDecSqrtOf(r, x) ==
    /\ r >= 0
    /\ r * r <= x * DecScale
    /\ (r + 1) * (r + 1) > x * DecScale

C25_NewVpoolHoldsArguments ==
    NewVpoolCalled =>
      /\ (poolCall.args.baseReserves >= 0 /\ poolCall.args.quoteReserves >= 0)
           => /\ poolCall.err = "ok"
              /\ pool.exists
              /\ pool.pair = poolCall.args.pair
              /\ pool.base = poolCall.args.baseReserves
              /\ pool.quote = poolCall.args.quoteReserves
              /\ IsDecSqrtOf(pool.sqrtDepth, ReserveProduct)
              /\ poolCall.args.config = <<>> => pool.config = DefaultVpoolConfig
              /\ poolCall.args.config # <<>> => pool.config = poolCall.args.config[1]
      /\ ReserveProduct < 0
           => (poolCall.err # "ok" /\ ~pool.exists)

C25_Witness ==
    /\ NewVpoolCalled
    /\ poolCall.args.config = <<CustomConfig>>
    /\ poolCall.args.baseReserves = ToDec(2)
    /\ poolCall.args.quoteReserves = ToDec(2)
    /\ pool.sqrtDepth = ToDec(2)
    /\ pool.config = CustomConfig

\* a negative product is refused
NegativeProductRefused ==
    /\ NewVpoolCalled
    /\ ReserveProduct < 0
    /\ ~pool.exists

\* C26: validate() returns an error if and only if the pair is empty, a
\* reserve is not strictly positive, any of tradeLimitRatio,
\* fluctuationLimitRatio, maxOracleSpreadRatio, maintenanceMarginRatio lies
\* outside [0,1], maxLeverage is not positive, or maintenanceMarginRatio *
\* maxLeverage > 1; the default config passes validation.
Outside01(ratio) == ratio < 0 \/ ratio > DecScale

ConfigIsBad(c) ==
    \/ Outside01(c.tradeLimitRatio)
    \/ Outside01(c.fluctuationLimitRatio)
    \/ Outside01(c.maxOracleSpreadRatio)
    \/ Outside01(c.maintenanceMarginRatio)
    \/ c.maxLeverage <= 0
    \/ \E product \in { (c.maintenanceMarginRatio * c.maxLeverage) \div DecScale,
                        ((c.maintenanceMarginRatio * c.maxLeverage) \div DecScale) + 1 } :
         /\ NearestHalfEven(product, c.maintenanceMarginRatio * c.maxLeverage, DecScale)
         /\ product > DecScale

C26_ValidateRejectsExactlyTheInvalid ==
    /\ poolCall.op = "Validate" =>
         ((poolCall.err # "ok")
            <=> \/ poolCall.m.pair = ""
                \/ poolCall.m.base <= 0
                \/ poolCall.m.quote <= 0
                \/ ConfigIsBad(poolCall.m.config))
    /\ poolCall.op = "ValidateConfig" =>
         ((poolCall.err # "ok") <=> ConfigIsBad(poolCall.config))
    /\ (poolCall.op = "ValidateConfig" /\ poolCall.config = DefaultVpoolConfig)
         => poolCall.err = "ok"

C26_Witness ==
    /\ poolCall.op = "Validate"
    /\ poolCall.m.pair # ""
    /\ poolCall.m.base > 0 /\ poolCall.m.quote > 0
    /\ poolCall.m.config.maintenanceMarginRatio = DecScale \div 10
    /\ poolCall.m.config.maxLeverage = ToDec(11)
    /\ ~Outside01(poolCall.m.config.tradeLimitRatio)
    /\ ~Outside01(poolCall.m.config.fluctuationLimitRatio)
    /\ ~Outside01(poolCall.m.config.maxOracleSpreadRatio)
    /\ poolCall.err = "MaxLeverageTooHigh"

DefaultConfigValidated ==
    /\ poolCall.op = "ValidateConfig"
    /\ poolCall.config = DefaultVpoolConfig
    /\ poolCall.err = "ok"

(* ------------- calcTwap under any stored snapshot counter -------------- *)

\* the counters the store is given: those of a written history, and the
\* values around the sign bit and at the top of the unsigned range
StoredCounterValues ==
    (0 .. MaxCounter)
      \cup { 2 ^ (CounterWidth - 1) - 1, 2 ^ (CounterWidth - 1), 2 ^ CounterWidth - 1 }

WalkNext ==
    \/ \E c \in 0 .. MaxCounter, rp \in StorePairs : SaveSnapshot(c, rp)
    \/ \E c \in StoredCounterValues : SaveSnapshotCounter(c)
    \/ \E t \in 0 .. MaxTime : SetBlockTime(t)
    \/ \E lb \in 0 .. MaxLookback : CalcTwap("Spot", "AddToPool", 0, lb)

SpecWalk == StoreInit /\ [][WalkNext]_vars

\* C27: the calcTwap walk visits counters latest, latest-1, ..., 0 in
\* strictly decreasing order, each at most once, treats counter 0 as the
\* terminal case, never reads a counter below 0 or above the stored latest
\* counter (no unsigned wraparound, for every value of the stored counter),
\* and terminates after at most latest+1 iterations.
WalkDone == twap.called /\ snapshotCounter.found

WalkIsDescentFromLatest ==
    /\ Len(twap.read) >= 1
    /\ Len(twap.read) <= Latest + 1
    /\ twap.read[1] = Latest
    /\ \A n \in 1 .. Len(twap.read) : twap.read[n] \in 0 .. Latest
    /\ \A n \in 2 .. Len(twap.read) : twap.read[n] = twap.read[n - 1] - 1

C27_WalkDescendsFromLatestToZero ==
    WalkDone => WalkIsDescentFromLatest

\* for a stored counter below the sign bit the walk is as C27 says
WalkOfSmallCounterDescends ==
    (WalkDone /\ Latest < 2 ^ (CounterWidth - 1)) => WalkIsDescentFromLatest

\* a stored counter with the sign bit set: no snapshot is read at all
SignBitCounterSkipsTheWalk ==
    (WalkDone /\ Latest >= 2 ^ (CounterWidth - 1))
      => (twap.read = <<>> /\ twap.err = "panic")

\* C28: when the pool's fluctuationLimitRatio is zero, isOverFluctuationLimit
\* returns false for every snapshot, even when the pool's mark price differs
\* from the snapshot's mark price (the check is disabled rather than
\* maximally strict).
SnapshotMarkPrice == getMarkPrice(snapshots[0].quote, snapshots[0].base)

C28_ZeroRatioDisablesTheLimit ==
    (poolCall.op = "IsOverFluctuationLimit" /\ poolCall.before.fluctuationLimitRatio = 0)
      => (poolCall.out = 0 /\ pool = poolCall.before)

C28_Witness ==
    /\ poolCall.op = "IsOverFluctuationLimit"
    /\ poolCall.before.fluctuationLimitRatio = 0
    /\ LimitMarkPrice # 0
    /\ LimitMarkPrice < SnapshotMarkPrice
    /\ poolCall.out = 0

\* C29: calcTwap never divides by a zero period: whenever it reaches its
\* final division, cumulativePeriodMs > 0 and every per-snapshot elapsed time
\* added to it was >= 0, for every history with non-decreasing timestamps not
\* later than the block time, lookbackInterval = 0 and a history whose only
\* reachable snapshots carry the block time as timestamp included.
ReachesFinalDivision == twap.called /\ HistoryWellFormed /\ PricesDefined

C29_PeriodPositiveAtFinalDivision ==
    ReachesFinalDivision =>
      /\ \A i \in Contributing : DurationOf(i) >= 0
      /\ SumDurations(Contributing) > 0
      /\ twap.err = "ok"
      /\ twap.period > 0

\* what holds instead: the elapsed times are never negative, and the final
\* division panics exactly when they sum to zero
ZeroPeriodPanics ==
    ReachesFinalDivision =>
      /\ \A i \in Contributing : DurationOf(i) >= 0
      /\ SumDurations(Contributing) = 0 => twap.err = "panic"
      /\ SumDurations(Contributing) > 0
           => (twap.err = "ok" /\ twap.period = SumDurations(Contributing))

ZeroLookbackPanicReached ==
    /\ ReachesFinalDivision
    /\ twap.lookback = 0
    /\ snapshots[Latest].ts < blockTime
    /\ twap.err = "panic"

(***************************************************************************)
(* The dex pool: Pool.SetInitialPoolAssets and SortPoolAssetsByDenom.      *)
(* A denomination is a number, its rank in strings.Compare order; whether  *)
(* PoolAsset.Validate accepts an asset comes with the asset.               *)
(***************************************************************************)
MaxAssets == 3

\* the factor between a user's weight and the internal weight
GuaranteedWeightPrecision == 4

\* PoolAsset.Validate
validateAsset(asset) == IF asset.valid THEN "ok" ELSE "InvalidPoolAsset"

RECURSIVE InsertByDenom(_, _)
\* asset put before the first element that does not compare below it
InsertByDenom(asset, sorted) ==
    IF sorted = <<>> THEN <<asset>>
    ELSE IF Head(sorted).denom < asset.denom
    THEN <<Head(sorted)>> \o InsertByDenom(asset, Tail(sorted))
    ELSE <<asset>> \o sorted

RECURSIVE SortPoolAssetsByDenom(_)
\* SortPoolAssetsByDenom: ascending by denomination
SortPoolAssetsByDenom(assets) ==
    IF assets = <<>> THEN <<>>
    ELSE InsertByDenom(Head(assets), SortPoolAssetsByDenom(Tail(assets)))

RECURSIVE scalePoolAssets(_, _, _, _)
\* SetInitialPoolAssets, lines 48-63: the loop over the given assets
scalePoolAssets(poolAssets, exists, scaledPoolAssets, newTotalWeight) ==
    IF poolAssets = <<>>
    THEN [err |-> "ok", scaledPoolAssets |-> scaledPoolAssets,
          newTotalWeight |-> newTotalWeight]
    ELSE LET asset == Head(poolAssets) IN
         IF validateAsset(asset) # "ok"
         THEN [err |-> validateAsset(asset), scaledPoolAssets |-> <<>>, newTotalWeight |-> 0]
         ELSE IF asset.denom \in exists
         THEN [err |-> "DuplicatePoolAsset", scaledPoolAssets |-> <<>>, newTotalWeight |-> 0]
         ELSE LET scaled == [asset EXCEPT !.weight = @ * GuaranteedWeightPrecision]
              IN  scalePoolAssets(Tail(poolAssets), exists \cup {asset.denom},
                                  Append(scaledPoolAssets, scaled),
                                  newTotalWeight + scaled.weight)

\* the mutant of setInitialPoolAssets: the scaled assets are stored in the
\* order given
setInitialPoolAssetsUnsorted(p, poolAssets) ==
    LET r == scalePoolAssets(poolAssets, {}, <<>>, 0)
    IN  IF r.err # "ok"
        THEN [err |-> r.err, pool |-> p]
        ELSE [err |-> "ok",
              pool |-> [poolAssets |-> r.scaledPoolAssets,
                        totalWeight |-> r.newTotalWeight]]

\* Pool.SetInitialPoolAssets
setInitialPoolAssets(p, poolAssets) ==
    LET r == scalePoolAssets(poolAssets, {}, <<>>, 0)
    IN  IF r.err # "ok"
        THEN [err |-> r.err, pool |-> p]
        ELSE [err |-> "ok",
              pool |-> [poolAssets |-> SortPoolAssetsByDenom(r.scaledPoolAssets),
                        totalWeight |-> r.newTotalWeight]]

DexDenoms == 1 .. 3
DexWeights == 1 .. 2

PoolAssets == [denom : DexDenoms, weight : DexWeights, valid : BOOLEAN]

RECURSIVE SeqsUpTo(_, _)
\* the sequences over S of length at most n
SeqsUpTo(S, n) ==
    IF n = 0 THEN { <<>> }
    ELSE LET shorter == SeqsUpTo(S, n - 1)
         IN  shorter \cup { Append(q, x) : q \in shorter, x \in S }

\* a pool being created, or one that already holds assets
DexInit ==
    /\ dexPool \in { NoDexPool,
                     [poolAssets |-> << [denom |-> 2, weight |-> GuaranteedWeightPrecision,
                                         valid |-> TRUE] >>,
                      totalWeight |-> GuaranteedWeightPrecision] }
    /\ dexCall = NoDexCall
    /\ pool = NoPool /\ poolCall = NoPoolCall
    /\ snapshots = NoSnapshots
    /\ snapshotCounter = [found |-> FALSE, value |-> 0]
    /\ blockTime = 0 /\ blockHeight = 0 /\ twap = NoTwap
    /\ position = NoPosition /\ traderBalance = 0 /\ vaultBalance = 0
    /\ latestCPF = 0 /\ marginCall = NoMarginCall

SetInitialPoolAssets(poolAssets) ==
    /\ ~dexCall.called
    /\ dexPool' = setInitialPoolAssets(dexPool, poolAssets).pool
    /\ dexCall' = [called |-> TRUE, err |-> setInitialPoolAssets(dexPool, poolAssets).err,
                   poolAssets |-> poolAssets, before |-> dexPool]
    /\ UNCHANGED <<pool, snapshots, snapshotCounter, blockTime, blockHeight, twap, poolCall,
                   position, traderBalance, vaultBalance, latestCPF, marginCall>>

DexNext == \E poolAssets \in SeqsUpTo(PoolAssets, MaxAssets) : SetInitialPoolAssets(poolAssets)

SpecDex == DexInit /\ [][DexNext]_vars

\* C30: SetInitialPoolAssets either returns an error (an asset fails
\* validation or two assets share a denomination) and leaves the pool's
\* PoolAssets and TotalWeight unchanged, or succeeds and leaves PoolAssets
\* sorted in strictly ascending denomination order with no duplicate
\* denomination, each weight multiplied by GuaranteedWeightPrecision, and
\* TotalWeight equal to the sum of the scaled weights.
GivenAssets == dexCall.poolAssets

SomeAssetInvalid == \E i \in 1 .. Len(GivenAssets) : ~GivenAssets[i].valid

SomeDenomTwice ==
    \E i, j \in 1 .. Len(GivenAssets) : i # j /\ GivenAssets[i].denom = GivenAssets[j].denom

RECURSIVE SumOfWeights(_)
SumOfWeights(assets) ==
    IF assets = <<>> THEN 0 ELSE Head(assets).weight + SumOfWeights(Tail(assets))

StoredAssets == dexPool.poolAssets

C30_SetInitialPoolAssetsAllOrNothing ==
    dexCall.called =>
      /\ (dexCall.err # "ok") <=> (SomeAssetInvalid \/ SomeDenomTwice)
      /\ dexCall.err # "ok" => dexPool = dexCall.before
      /\ dexCall.err = "ok" =>
           /\ Len(StoredAssets) = Len(GivenAssets)
           /\ \A i \in 1 .. (Len(StoredAssets) - 1) :
                StoredAssets[i].denom < StoredAssets[i + 1].denom
           /\ \A i \in 1 .. Len(GivenAssets) :
                \E j \in 1 .. Len(StoredAssets) :
                  /\ StoredAssets[j].denom = GivenAssets[i].denom
                  /\ StoredAssets[j].weight = GivenAssets[i].weight * GuaranteedWeightPrecision
           /\ dexPool.totalWeight = SumOfWeights(StoredAssets)
           /\ dexPool.totalWeight = SumOfWeights(GivenAssets) * GuaranteedWeightPrecision

C30_Witness ==
    /\ dexCall.called
    /\ dexCall.err = "ok"
    /\ Len(GivenAssets) = 3
    /\ GivenAssets[1].denom = 3 /\ GivenAssets[2].denom = 1 /\ GivenAssets[3].denom = 2
    /\ StoredAssets[1].denom = 1 /\ StoredAssets[3].denom = 3
    /\ dexCall.before # NoDexPool

\* a duplicate denomination leaves an initialised pool as it was
DuplicateRefused ==
    /\ dexCall.called
    /\ dexCall.err = "DuplicatePoolAsset"
    /\ dexCall.before # NoDexPool
    /\ dexPool = dexCall.before

====
